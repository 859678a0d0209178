---------------------------- MODULE MCFileStore -----------------------------
(* A small instance of FileStore for TLC.                                   *)
EXTENDS FileStore, TLC

CONSTANTS r1, r2, r3, n1, n2

\* Two names with one safe name.
MCSafeName == [n \in {n1, n2} |-> n1]

Ask(kind, name, title, size, claim, valid) ==
    [kind |-> kind, name |-> name, title |-> title, size |-> size, claim |-> claim, valid |-> valid]

\* The chunked upload claims less room than it takes.
MCUploads ==
    {Ask("extra", n1, n2, 2, 2, TRUE), Ask("extra", n2, NoTitle, 1, 1, TRUE),
     Ask("extra", n1, NoTitle, 1, 1, FALSE), Ask("config", n1, NoTitle, 1, 1, TRUE),
     Ask("chunked", n2, NoTitle, 2, 1, TRUE)}

MCSymmetry == Permutations({r1, r2, r3})
=============================================================================
