--------------------------------- MODULE MCRisk ---------------------------------
(***************************************************************************)
(* One instance of each component that decides on a trade or keeps an      *)
(* order in bounds: a behaviour moves one of them and leaves the others as *)
(* they were initialised. The loop of main.py moves with its engine.       *)
(***************************************************************************)
EXTENDS PortfolioRisk, Drawdown, PaperLoop, OrderLifecycle, Blacklist

VARIABLE part

riskVars == <<portfolioVars, drawdownVars, paperVars, lifecycleVars, blacklistVars, part>>

TierTable == <<3, 5, 8, 12>>
SectorTable == [p \in Pairs |-> IF p = "AAPL_MSFT" THEN "Tech" ELSE NoSector]

RiskInit ==
    /\ part \in {"portfolio", "drawdown", "engine", "paper", "lifecycle", "blacklist"}
    /\ PortfolioInit /\ DrawdownInit /\ LifecycleInit /\ BlacklistInit
    /\ IF part = "paper" THEN PaperInit ELSE EngineInit /\ NoSession

Lifecycle(A) ==
    /\ part = "lifecycle" /\ A
    /\ UNCHANGED <<portfolioVars, drawdownVars, paperVars, blacklistVars, part>>

RiskNext ==
    \/ /\ part = "portfolio" /\ PortfolioNext
       /\ UNCHANGED <<drawdownVars, paperVars, lifecycleVars, blacklistVars, part>>
    \/ /\ part = "drawdown" /\ DrawdownNext
       /\ UNCHANGED <<portfolioVars, paperVars, lifecycleVars, blacklistVars, part>>
    \/ /\ part = "engine" /\ EngineNext
       /\ UNCHANGED <<portfolioVars, drawdownVars, loopVars, lifecycleVars, blacklistVars, part>>
    \/ /\ part = "paper" /\ PaperNext
       /\ UNCHANGED <<portfolioVars, drawdownVars, lifecycleVars, blacklistVars, part>>
    \/ /\ part = "blacklist" /\ BlacklistNext
       /\ UNCHANGED <<portfolioVars, drawdownVars, paperVars, lifecycleVars, part>>
    \/ Lifecycle(LifecycleNext)

RiskFairness ==
    /\ WF_riskVars(Lifecycle(Check)) /\ WF_riskVars(Lifecycle(IntervalPasses))
    /\ \A o \in Tracked : WF_riskVars(Lifecycle(DeadlinePasses(o)))

RiskSpec == RiskInit /\ [][RiskNext]_riskVars /\ RiskFairness
================================================================================
