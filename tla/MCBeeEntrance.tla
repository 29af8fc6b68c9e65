--------------------------- MODULE MCBeeEntrance ---------------------------
(* BeeEntrance on small instances, and its refinement of SessionPool.      *)
EXTENDS BeeEntrance, TLC

CONSTANTS NoThread, c1

ASSUME NoThreadAssumption == NoThread \notin Threads

MCSvcCode == [s \in Svcs |-> c1]

Symmetry == Permutations(Threads) \cup Permutations(Handles) \cup Permutations(Sids) \cup Permutations(Svcs)

\* The holder of a busy session is the thread its one claim belongs to.
Holder(h) ==
    IF h \notin busy_sessions THEN NoThread
    ELSE LET c == CHOOSE x \in Claims(h) : TRUE
         IN  IF c[1] = "close" THEN queue[c[2]].thread ELSE c[2]

\* The call a thread is in, as SessionPool sees it: execute, reg and unreg
\* do not show.
CallOf(t) ==
    LET r == thread[t] IN
    CASE r.pc = "wait" /\ r.op = "open"  -> [op |-> "open", h |-> NoHandle]
      [] r.pc = "wait" /\ r.op = "close" -> [op |-> "close", h |-> r.h]
      [] r.pc = "ret"  /\ r.op = "open"  ->
            [op |-> CASE r.ec = "Success"              -> "opened"
                      [] r.ec = "Insufficient_Session" -> "none_left"
                      [] OTHER                         -> "not_opened",
             h  |-> r.h]
      [] r.pc = "ret"  /\ r.op = "close" -> [op |-> "closed", h |-> NoHandle]
      [] OTHER                           -> [op |-> "none", h |-> NoHandle]

Pool == INSTANCE SessionPool WITH
    up     <- manager,
    holder <- [h \in Handles |-> Holder(h)],
    call   <- [t \in Threads |-> CallOf(t)]

\* The entrance implements the abstract pool: open and close take effect
\* atomically, on sessions nobody else holds.
PoolSpec == Pool!Spec
=============================================================================
