----------------------------- MODULE MCSessions -----------------------------
(* Instances of Sessions for TLC. *)
EXTENDS Sessions, TLC

CONSTANTS s1, s2, d1, d2

Everywhere == [s \in Sessions |-> Dbs]

(* The second session may use one of the databases only. *)
OneForTheSecond == [s \in Sessions |-> IF s = s2 THEN {d1} ELSE Dbs]

(* States that differ only in what no later step looks at behave alike.    *)

(* The answer of a write is never sent again, unless clients repeat writes. *)
NeverSent(q) == IsWrite(q) /\ ~RepeatWrites

(* The statement at work will replace the cache entry. *)
Replacing(s) ==
    \/ pc[s] = "execute" /\ MayUse(s) /\ work[s].query.kind # "failing_write"
    \/ pc[s] = "bump"
    \/ pc[s] = "reply" /\ work[s].bytes # Error

LiveEntry(s) ==
    IF l0[s] = None \/ Replacing(s) THEN None
    ELSE IF l0[s].gen # write_gen \/ NeverSent(l0[s].query) THEN None
    ELSE l0[s]

LiveWork(s) ==
    IF \/ work[s] = None
       \/ pc[s] = "execute"
       \/ ~NeverSent(work[s].query) /\ work[s].bytes # Error
    THEN work[s]
    ELSE work[s].bytes = Error

LiveStanding(s) ==
    IF \/ LiveEntry(s) # None /\ LiveEntry(s).query.kind = "read"
       \/ pc[s] = "reply" /\ work[s].bytes \notin {Ok, Error}
    THEN standing[s] ELSE "current"

View ==
    << contents, write_gen, current_db, txn, pc, copy, books,
       [s \in Sessions |-> <<LiveEntry(s), LiveWork(s), LiveStanding(s)>>] >>

(* Sessions are interchangeable. *)
Symmetry == Permutations(Sessions)
=============================================================================
