------------------------------ MODULE TokenBucket ------------------------------
(***************************************************************************)
(* execution/rate_limiter.py: the token bucket in front of every call of   *)
(* the IBKR API (one for the process: common/ibkr_rate_limiter.py), used   *)
(* by several threads. IB Gateway disconnects a client that sends more     *)
(* than 50 messages a second. Tokens are counted in parts of a token, and  *)
(* the bucket is only refilled when somebody looks at it.                  *)
(***************************************************************************)
EXTENDS Integers

CONSTANTS Users,        \* threads that call acquire() or try_acquire()
          Burst,        \* tokens of a full bucket, 8 in the code
          Token,        \* parts of a token
          Rate,         \* parts of a token that a tick brings
          Patience,     \* timeout of acquire(), in ticks
          Window        \* length of the window that the broker watches, in ticks

ASSUME BucketAssumption ==
    /\ Burst \in Nat \ {0} /\ Token \in Nat \ {0} /\ Rate \in Nat \ {0}
    /\ Patience \in Nat /\ Window \in Nat \ {0}

Full == Burst * Token

VARIABLES
    tokens,     \* _tokens, as of the last refill
    idle,       \* time since _last_refill, up to what fills the bucket
    left,       \* per waiting thread: time to its deadline; -1 when not waiting
    asleep,     \* the waiting threads in time.sleep()
    taken       \* history: tokens taken in the last w ticks, for w up to Window

bucketVars == <<tokens, idle, left, asleep, taken>>

Waiting == {u \in Users : left[u] >= 0}

BucketInit ==
    /\ tokens = Full
    /\ idle = 0
    /\ left = [u \in Users |-> -1]
    /\ asleep = {}
    /\ taken = [w \in 1 .. Window |-> 0]

--------------------------------------------------------------------------------
\* Mutant: an idle bucket fills beyond its burst.
RefilledWithoutLimit == tokens + idle * Rate

(***************************************************************************)
(* _refill(), under the lock: what the bucket holds now.                   *)
(***************************************************************************)
Refilled ==
    IF tokens + idle * Rate < Full THEN tokens + idle * Rate ELSE Full

(***************************************************************************)
(* The wait for the next token, in ticks, rounded up.                      *)
(***************************************************************************)
WaitForToken == (Token - Refilled + Rate - 1) \div Rate

TakeToken ==
    /\ Refilled >= Token
    /\ tokens' = Refilled - Token
    /\ idle' = 0
    /\ taken' = [w \in 1 .. Window |-> taken[w] + 1]

LookOnly ==
    /\ Refilled < Token
    /\ tokens' = Refilled
    /\ idle' = 0
    /\ UNCHANGED taken

(***************************************************************************)
(* acquire() begins: the deadline is set. The first turn of its loop is    *)
(* another step.                                                           *)
(***************************************************************************)
CallAcquire(u) ==
    /\ left[u] = -1
    /\ left' = [left EXCEPT ![u] = Patience]
    /\ UNCHANGED <<tokens, idle, asleep, taken>>

(***************************************************************************)
(* A turn of the loop of acquire(): a token is there; or the wait for one  *)
(* goes beyond the deadline and the call raises; or the thread sleeps for  *)
(* a part of the wait.                                                     *)
(***************************************************************************)
Acquired(u) ==
    /\ u \in Waiting \ asleep
    /\ TakeToken
    /\ left' = [left EXCEPT ![u] = -1]
    /\ UNCHANGED asleep

TimedOut(u) ==
    /\ u \in Waiting \ asleep
    /\ LookOnly
    /\ WaitForToken > left[u]
    /\ left' = [left EXCEPT ![u] = -1]
    /\ UNCHANGED asleep

SleepALittle(u) ==
    /\ u \in Waiting \ asleep
    /\ LookOnly
    /\ WaitForToken <= left[u]
    /\ asleep' = asleep \cup {u}
    /\ UNCHANGED left

(***************************************************************************)
(* try_acquire(): takes a token or returns False.                          *)
(***************************************************************************)
TryAcquire(u) ==
    /\ left[u] = -1
    /\ TakeToken \/ LookOnly
    /\ UNCHANGED <<left, asleep>>

(***************************************************************************)
(* A tick: no thread that is awake is in the middle of its turn. It is the *)
(* longest a thread sleeps (50 ms), so that every sleeper wakes up.        *)
(***************************************************************************)
BucketTick ==
    /\ Waiting \subseteq asleep
    /\ idle' = IF idle * Rate < Full THEN idle + 1 ELSE idle
    /\ left' = [u \in Users |-> IF left[u] >= 0 THEN left[u] - 1 ELSE -1]
    /\ asleep' = {}
    /\ taken' = [w \in 1 .. Window |-> IF w = 1 THEN 0 ELSE taken[w - 1]]
    /\ UNCHANGED tokens

Turn(u) == Acquired(u) \/ TimedOut(u) \/ SleepALittle(u)

BucketNext ==
    \/ \E u \in Users : CallAcquire(u) \/ Turn(u) \/ TryAcquire(u)
    \/ BucketTick

BucketSpec == BucketInit /\ [][BucketNext]_bucketVars

--------------------------------------------------------------------------------
(***************************************************************************)
(* Tokens, times and threads have their types.                             *)
(***************************************************************************)
BucketTypeOK ==
    /\ tokens \in 0 .. Full
    /\ idle \in Nat
    /\ left \in [Users -> -1 .. Patience]
    /\ asleep \subseteq Waiting
    /\ taken \in [1 .. Window -> Nat]

(***************************************************************************)
(* acquire() returns or raises by its deadline: a thread only goes to      *)
(* sleep while it has time left, however many others take the tokens it    *)
(* waits for.                                                              *)
(***************************************************************************)
SleepersHaveTime == \A u \in asleep : left[u] > 0

(***************************************************************************)
(* Whatever the threads do, no window of w ticks sees more messages than   *)
(* the burst and what w ticks bring: rate and burst of the bucket (40 and  *)
(* 8 a second) stay below the 50 of the broker.                            *)
(***************************************************************************)
WindowIsBounded ==
    \A w \in 1 .. Window : Token * taken[w] <= Full + (w - 1) * Rate
================================================================================
