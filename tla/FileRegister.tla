----------------------------- MODULE FileRegister -----------------------------
(***************************************************************************)
(* What a file promises those who write and read it: at every moment it    *)
(* is absent or holds one whole content, and it changes only to another    *)
(* whole content, in one step.  Module AtomicFile implements it when a     *)
(* path has one writer at a time.                                          *)
(***************************************************************************)
CONSTANTS Paths,     \* the files
          Writable,  \* the contents that may be written
          None       \* the file does not exist

VARIABLE value       \* value[p]: what a reader of p finds

Init == value \in [Paths -> Writable \cup {None}]

Write(p, v) == value' = [value EXCEPT ![p] = v]

Next == \E p \in Paths, v \in Writable : Write(p, v)

Spec == Init /\ [][Next]_value

=============================================================================
