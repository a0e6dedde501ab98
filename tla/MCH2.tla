-------------------------------- MODULE MCH2 --------------------------------
EXTENDS H2
S(body, resp, max, calls) == [body |-> body, resp |-> resp, maxStreams |-> max, calls |-> calls]
MCScenarios ==
  {S(<<2>>, <<3>>, 3, {"respondEarly", "closeBody", "ping"}),
   S(<<2>>, <<1>>, 3, {"respondEarly", "errorStatus"}),
   S(<<2>>, <<3>>, 3, {"cancel"}),
   S(<<1, 1>>, <<0, 0>>, 2, {"shutdown"}),
   S(<<2>>, <<3>>, 3, {"panic", "lateEOF", "bodyError"}),
   S(<<0, 0>>, <<3, 1>>, 3, {"closeResponse"}),
   S(<<0, 1>>, <<0, 0>>, 1, {}),
   S(<<1>>, <<1>>, 3, {"trailers"}),
   S(<<0, 0>>, <<1, 1>>, 3, {"idle", "closeIdle"})}
=============================================================================
