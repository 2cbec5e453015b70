------------------------------ MODULE MCUploads ------------------------------
(* Instances of UploadPool for TLC.                                        *)
EXTENDS UploadPool

CONSTANTS x, y

R(path, key, kind, fresh, hash) ==
    [path |-> path, key |-> key, kind |-> kind, fresh |-> fresh, hash |-> hash]

\* A row that needs no bytes, two rows of one content around another content,
\* and a path that differs from an earlier one in case only.
MCRows == << R("d", "d", "noop", FALSE, x),
             R("a", "a", "file", TRUE, x),  R("b", "b", "file", FALSE, y),
             R("A", "a", "file", TRUE, y),  R("c", "c", "file", FALSE, x) >>

\* One file, for the runs that only look at its unit.
MCOneRow == << R("a", "a", "file", TRUE, x) >>
=============================================================================
