--------------------------- MODULE MCMemoryLimiter ---------------------------
(* Small instances of MemoryLimiter for TLC.                                *)
EXTENDS MemoryLimiter

CONSTANTS r1, r2, r3

Section(on, min, max, initial, patient) ==
    [on |-> on, min |-> min, max |-> max, initial |-> initial,
     patient |-> patient]

\* One slot without waiting, up to two slots with it, and the limiter off.
Reloads == {Section(TRUE, 1, 1, 1, FALSE), Section(TRUE, 1, 2, 2, TRUE),
            Section(FALSE, 1, 1, 1, TRUE)}
=============================================================================
