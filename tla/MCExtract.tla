------------------------------ MODULE MCExtract ------------------------------
\* One shipped template, which every actor may use.
EXTENDS Extract

MCMay == [x \in Actor |-> Template]
MCRow == {[on |-> FALSE, default |-> TRUE, model |-> None]}

=============================================================================
