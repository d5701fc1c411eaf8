-------------------------------- MODULE MCIde --------------------------------
(* The kinds of traffic for which module Ide is checked.                    *)
EXTENDS Ide

\* Commands of one sector each; the second time over a disk that may be too slow.
SingleSector ==
    [ops : {{"read", "write"}}, counts : {{1, 2}}, max_op : {1}, slow : BOOLEAN]

\* Reads of several sectors per command; three sectors are a full command, whose
\* count reads 0 in the register, and a rest.
MultiRead == [ops : {{"read"}}, counts : {{1, 2, 3}}, max_op : {2}, slow : BOOLEAN]

\* Writes of two sectors in one command.
MultiWrite == [ops : {{"write"}}, counts : {{1, 2}}, max_op : {2}, slow : {FALSE}]

Sound == SingleSector \cup MultiRead
=============================================================================
