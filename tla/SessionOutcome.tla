---------------------------- MODULE SessionOutcome ----------------------------
(***************************************************************************)
(* The Session Outcome block of src/controller_session_outcome.cpp, which  *)
(* the Supervisor sends to the attached Controller as its last answer, and *)
(* the Controller's parser of it.                                          *)
(*                                                                         *)
(* A line is a record [kind, value].  The numbers of an exit code or of a  *)
(* signal are kept as one value, and a block never reaches the limit of    *)
(* 1024 bytes, since it names each of the eight failures at most once.     *)
(***************************************************************************)
EXTENDS Sequences, Naturals

Line(kind, value) == [kind |-> kind, value |-> value]
Marker(kind) == Line(kind, "none")

(* The workload result of an outcome is "unknown" when there is none. *)
Outcome(workload, failures) == [workload |-> workload, failures |-> failures]
NoOutcome == Outcome("unknown", <<>>)

Succeeded(o) == o.failures = <<>>

(* What serialize_controller_session_outcome() does not refuse. *)
Serializable(o) ==
    /\ Succeeded(o) => o.workload # "unknown"
    /\ \A i, j \in DOMAIN o.failures : o.failures[i] = o.failures[j] => i = j

Serialize(o) ==
    <<Marker("BEGIN"), Line("WORKLOAD", o.workload),
      Line("INFRASTRUCTURE", IF Succeeded(o) THEN "ok" ELSE "failed")>>
    \o [i \in DOMAIN o.failures |-> Line("FAILURE", o.failures[i])]
    \o <<Marker("END")>>

-----------------------------------------------------------------------------
(* parse_block(): a malformed line is an error at once, the end of the      *)
(* input before END is an incomplete block.                                 *)

Claims(b) == b[3].value = "ok"

(* The n-th line of the block, whatever follows it. *)
BadLine(b, n) ==
    CASE n = 1 -> b[n].kind # "BEGIN"
      [] n = 2 -> b[n].kind # "WORKLOAD"
      [] n = 3 -> b[n].kind # "INFRASTRUCTURE" \/ (Claims(b) /\ b[2].value = "unknown")
      [] OTHER ->
            CASE b[n].kind = "FAILURE" ->
                    Claims(b) \/ \E i \in 4..(n - 1) : b[i] = b[n]
              [] b[n].kind = "END" ->
                    n < Len(b) \/ (~Claims(b) /\ n = 4)
              [] OTHER -> TRUE

Malformed(b) == \E n \in DOMAIN b : BadLine(b, n)

\* Fault: the block is taken for complete with its first failure.
CompleteEarly(b) == Len(b) >= 4

Complete(b) == Len(b) >= 4 /\ b[Len(b)].kind = "END"

Parsed(b) ==
    Outcome(b[2].value,
            [i \in 1..(Len(b) - 4) |-> b[i + 3].value])
=============================================================================
