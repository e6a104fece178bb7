------------------------- MODULE AgentControllerMC --------------------------
EXTENDS AgentController

\* Every kind of action, and answers of two actions that leave one in the queue.
MCResponse == {<<"run", "run">>, <<"run", "finish">>, <<"think", "reject">>,
               <<"say", "run">>, <<"ask">>}
=============================================================================
