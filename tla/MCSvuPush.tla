------------------------------ MODULE MCSvuPush -----------------------------
(***************************************************************************)
(* Small instances of SvuPush for TLC.  The symbols of a path are small    *)
(* numbers; the magic number reads as 9.                                   *)
(***************************************************************************)
EXTENDS SvuPush

To(path, mode) == [path |-> path, mode |-> mode]

\* Two targets that fit, and a path that begins like an announce with permission
\* bits.
ShortTargets == {To(<<1>>, 0), To(<<2>>, 1), To(<<9, 1, 2>>, 0)}

\* A path that fits without permission bits and is pushed with them.
LongTarget == {To(<<1, 2>>, 1)}
=============================================================================
