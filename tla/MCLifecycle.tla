---------------------------- MODULE MCLifecycle ----------------------------
\* Every driver in programmer_table, sessions of all of them in any order, each step failing
\* wherever it may. There is nothing to choose: the state is finite although sessions are not
\* counted, for only static pointers survive a session.
EXTENDS Lifecycle

=============================================================================
