------------------------------ MODULE MCSSHMux ------------------------------
(* The scenarios: each lets a few calls meet. *)
EXTENDS SSHMux

Each(c, s) == [e \in Ends |-> IF e = "client" THEN c ELSE s]
Nothing == [opens |-> Each(1, 0), bytes |-> Each(0, 0), requests |-> Each(0, 0),
            globals |-> Each(0, 0), codes |-> {0}, calls |-> {}]

\* More bytes than the window, while the other side or both close.
Flow == [Nothing EXCEPT !.bytes = Each(3, 0), !.codes = {0, 1},
                        !.calls = {<<"server", "Close">>, <<"client", "CloseWrite">>}]
Duplex == [Nothing EXCEPT !.bytes = Each(1, 1),
                          !.calls = Ends \X {"Close"}]
\* Ids that are used again, and channels of both ends.
Reuse == [Nothing EXCEPT !.opens = Each(2, 0), !.calls = {<<"client", "Close">>, <<"server", "Close">>, <<"server", "Reject">>}]
Both == [Nothing EXCEPT !.opens = Each(1, 1), !.bytes = Each(0, 1),
                        !.calls = {<<"client", "Close">>}]
\* Requests that fill the queues, and the loop that ends under them.
Requests == [Nothing EXCEPT !.requests = Each(3, 1),
                            !.calls = {<<"server", "Close">>}]
Globals == [Nothing EXCEPT !.opens = Each(0, 0), !.globals = Each(2, 1),
                           !.calls = {<<"server", "CloseConn">>}]
Broken == [Nothing EXCEPT !.bytes = Each(3, 0), !.requests = Each(1, 0),
                          !.calls = {<<"server", "CloseConn">>}]

MuxScenarios == {Flow, Duplex, Reuse, Both, Requests, Globals, Broken}
=============================================================================
