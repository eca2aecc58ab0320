------------------------------ MODULE MCRunner ------------------------------
(***************************************************************************)
(* Two dependencies, one of them somebody else's or neither, one service   *)
(* or two, and a batch of posts with a publish after it; and a service     *)
(* with a post and nothing else.                                           *)
(***************************************************************************)
EXTENDS Runner

MCDependencies == <<"nats", "redis">>
Asks(readyWhen, others) == [modes |-> readyWhen, external |-> others]
MCScenarios ==
    {Asks(<<"http_listening", "nats_subscription_active">>, {"redis"}),
     Asks(<<"nats_subscription_active", "first_connection">>, {"redis"}),
     Asks(<<"immediate">>, {})}
MCWorkload == <<"post", "post", "wait", "publish">>

MCNoDependencies == <<>>
MCImmediate == {Asks(<<"immediate">>, {})}
MCOnePost == <<"post">>
=============================================================================
