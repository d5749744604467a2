------------------------------ MODULE MCFileEdits ------------------------------
\* Small instances of FileEdits for TLC: the edits of the hashline protocol that a
\* tool may ask for, and the ranges of lines it may read.
EXTENDS FileEdits

Edit(kind, from, to, count) == [kind |-> kind, from |-> from, to |-> to, n |-> count]
MCShapes == {Edit("rows", 1, 2, 1), Edit("swap", 1, 1, 2), Edit("after", 2, 2, 1),
             Edit("before", 3, 3, 1)}
MCRanges == {<<1, 2>>, <<2, 4>>}
================================================================================
