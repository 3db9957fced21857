---------------------------- MODULE AtomicWrites ----------------------------
(***************************************************************************)
(* What a caller of the store may rely on for a write of one statement      *)
(* (server/store.go, internal/audit/audit.go): it lands at most once, it    *)
(* lands before it is reported done, and a write reported as failed has     *)
(* not landed and never will.  StoreWriter implements it.                   *)
(***************************************************************************)
EXTENDS Naturals, Sequences

CONSTANT Writes

VARIABLES
  log,        \* the writes that landed, in order
  report      \* what is known of each: "open", "ok" or "error"

vars == <<log, report>>

Landed(w) == \E i \in DOMAIN log : log[i] = w

Init ==
  /\ log = <<>>
  /\ report = [w \in Writes |-> "open"]

(* The statement commits.                                                   *)
Land(w) ==
  /\ report[w] = "open" /\ ~Landed(w)
  /\ log' = Append(log, w)
  /\ UNCHANGED report

Report(w) ==
  /\ report[w] = "open"
  /\ report' = [report EXCEPT ![w] = IF Landed(w) THEN "ok" ELSE "error"]
  /\ UNCHANGED log

Next == \E w \in Writes : Land(w) \/ Report(w)

Spec == Init /\ [][Next]_vars
=============================================================================
