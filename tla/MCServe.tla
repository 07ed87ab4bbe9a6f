------------------------------ MODULE MCServe ------------------------------
(* Instances of Serve for TLC. *)
EXTENDS Serve, TLC

Flags(listen, tsnet, localWrite, gc) ==
    [listen |-> listen, tsnet |-> tsnet, localWrite |-> localWrite, gc |-> gc]

McScenarios ==
    { \* Two processes are given one spool directory while a client pushes.
      [starts |-> <<1, 2>>, signals |-> 1, grants |-> 0, faults |-> 1, requests |-> {PutNar},
       db |-> {TRUE}, granted |-> {{}},
       configs |-> {Flags(<<>>, <<>>, TRUE, FALSE)}],
      \* One process with all its listeners and goroutines.
      [starts |-> <<1>>, signals |-> 1, grants |-> 0, faults |-> 1, requests |-> {GetNar},
       db |-> BOOLEAN, granted |-> {{}},
       configs |-> {Flags(<<"lo1">>, <<"ts">>, FALSE, FALSE), Flags(<<"lo1", "", "lo2">>, <<>>, TRUE, FALSE),
                    Flags(<<>>, <<"ts">>, FALSE, TRUE), Flags(<<"">>, <<>>, FALSE, FALSE),
                    Flags(<<"lo1", "lo1">>, <<>>, FALSE, FALSE)}],
      \* Every kind of request, while the grants change.
      [starts |-> <<1>>, signals |-> 0, grants |-> 1, faults |-> 0, requests |-> Requests,
       db |-> {TRUE}, granted |-> SUBSET Clients,
       configs |-> {Flags(<<>>, <<"ts">>, FALSE, FALSE), Flags(<<"lo1">>, <<>>, FALSE, FALSE),
                    Flags(<<"lo1">>, <<>>, TRUE, FALSE)}] }
=============================================================================
