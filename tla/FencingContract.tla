--------------------------- MODULE FencingContract ---------------------------
(***************************************************************************)
(* What the coordination registry promises of each unit that sessions      *)
(* claim, whatever the batches, operations and epochs behind it: a lock    *)
(* with leases and fencing tokens.  At most one session holds a unit; it   *)
(* loses the unit by its own act or when its lease does not run; a new     *)
(* token is higher than every token another session gave up; and the       *)
(* accepted content of a path is moved only by its holder, who gives the   *)
(* path up with that.                                                      *)
(***************************************************************************)
EXTENDS Naturals

CONSTANTS Sessions, Units, Paths

VARIABLES
  lease,    \* the sessions that work under a lease that runs
  hold,     \* the holder of a unit, and its token: at most one
  gone,     \* the holders and tokens of the past
  value     \* the accepted contents

contractVars == <<lease, hold, gone, value>>

Tokens == Sessions \X Nat

ContractInit ==
  /\ lease = {}
  /\ hold = [u \in Units |-> {}]
  /\ gone = [u \in Units |-> {}]

Keeps(u) == hold'[u] = hold[u] /\ gone'[u] = gone[u]

\* Session s may end what h stands for.
MayEnd(s, h) == h[1] = s \/ h[1] \notin lease

LetsGo(s, u) ==
  \E h \in hold[u] :
    MayEnd(s, h) /\ hold'[u] = {} /\ gone'[u] = gone[u] \cup {h}

\* A unit is taken by nobody but the session that acts.
Takes(s, u) ==
  \E t \in hold'[u] :
    /\ hold'[u] = {t} /\ t[1] = s
    /\ \A h \in gone'[u] : h[1] # s => h[2] < t[2]
    /\ s \in lease
    /\ \/ hold[u] = {} /\ gone'[u] = gone[u]
       \/ \E h \in hold[u] : MayEnd(s, h) /\ gone'[u] = gone[u] \cup {h}

\* A session goes on with what it holds under a higher token.
Renews(s, u) ==
  \E t \in hold'[u] :
    /\ hold'[u] = {t} /\ t[1] = s
    /\ \A h \in gone[u] : h[1] # s => h[2] < t[2]
    /\ \E h \in hold[u] : h[1] = s /\ h[2] < t[2]
    /\ gone'[u] = gone[u]

Commits(s, p) ==
  s \in lease /\ (\E h \in hold[p] : h[1] = s) /\ hold'[p] = {}

\* What session s does, to any number of units at once.
Acts(s) ==
  /\ \A u \in Units : Keeps(u) \/ LetsGo(s, u) \/ Takes(s, u) \/ Renews(s, u)
  /\ \A p \in Paths : value'[p] = value[p] \/ Commits(s, p)

\* Leases begin and end at any time.
ContractNext ==
  /\ lease' \subseteq Sessions
  /\ hold' \in [Units -> SUBSET Tokens] /\ gone' \in [Units -> SUBSET Tokens]
  /\ \E s \in Sessions : Acts(s)

ContractSpec == ContractInit /\ [][ContractNext]_contractVars
=============================================================================
