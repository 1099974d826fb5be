-------------------------- MODULE MCDynamicCapture --------------------------
EXTENDS DynamicCapture
Both == {"pool", "endpoints"}
SomeSettings ==
    {[auto |-> TRUE, ext |-> TRUE, refresh |-> Both], [auto |-> TRUE, ext |-> FALSE, refresh |-> Both],
     [auto |-> TRUE, ext |-> FALSE, refresh |-> {}], [auto |-> FALSE, ext |-> FALSE, refresh |-> {"endpoints"}]}
=============================================================================
