------------------------------ MODULE RateLimit ------------------------------
(***************************************************************************)
(* POST requests of the API: limitPosts, which configureApp installs ahead *)
(* of authorization, over consumeRate.  The windows live in one map of the *)
(* process, an entry per client and never removed; a request that is       *)
(* refused leaves no trace.  The clock does not go back.                   *)
(***************************************************************************)
EXTENDS Integers, Sequences, FiniteSets

CONSTANTS
  Clients,   \* request.ip
  Limit,     \* POST requests of a client in a window
  WindowMs,  \* length of a window
  MaxTime    \* bound on the clock

RateLimitAssumption ==
  /\ Limit \in Nat \ {0}
  /\ WindowMs \in Nat \ {0}
  /\ MaxTime \in Nat

VARIABLES
  now,     \* Date.now()
  window,  \* postWindows; count 0 for no entry
  passed   \* times at which requests of a client passed

vars == <<now, window, passed>>

TypeOK ==
  /\ now \in 0..MaxTime
  /\ window \in [Clients -> [start: 0..MaxTime, count: 0..Limit]]
  /\ passed \in [Clients -> Seq(0..MaxTime)]

Init ==
  /\ now = 0
  /\ window = [c \in Clients |-> [start |-> 0, count |-> 0]]
  /\ passed = [c \in Clients |-> <<>>]

Tick ==
  /\ now < MaxTime
  /\ now' = now + 1
  /\ UNCHANGED <<window, passed>>

\* Whether a client's window is missing or over.
ExpiredLate(c) == window[c].count = 0 \/ now - window[c].start > WindowMs
Expired(c) == window[c].count = 0 \/ now - window[c].start >= WindowMs

\* Whether consumeRate lets the client pass.
MayPass(c) == Expired(c) \/ window[c].count < Limit

\* When the window in which a client's request is counted began.
WindowStart(c) == IF Expired(c) THEN now ELSE window[c].start

Post(c) ==
  /\ MayPass(c)
  /\ window' = [window EXCEPT ![c] =
       [start |-> WindowStart(c), count |-> IF Expired(c) THEN 1 ELSE @.count + 1]]
  /\ passed' = [passed EXCEPT ![c] = Append(@, now)]
  /\ UNCHANGED now

Next == Tick \/ \E c \in Clients : Post(c)

Spec == Init /\ [][Next]_vars

-----------------------------------------------------------------------------
(* Properties *)

(***************************************************************************)
(* The limit holds as far as a fixed window can hold it: any stretch of    *)
(* time of a window's length, wherever it begins, sees less than twice the *)
(* limit.  And nobody is kept out by having been kept out: a client is     *)
(* refused only if `Limit` of its requests passed less than a window ago.  *)
(***************************************************************************)
LimitHolds ==
  \A c \in Clients :
    /\ \A i \in DOMAIN passed[c] :
         Cardinality({j \in i..Len(passed[c]) : passed[c][j] - passed[c][i] < WindowMs})
           < 2 * Limit
    /\ ~MayPass(c) =>
         Cardinality({i \in DOMAIN passed[c] : now - passed[c][i] < WindowMs}) >= Limit

=============================================================================
