------------------------------ MODULE MCClosing ------------------------------
(***************************************************************************)
(* Closing with two public channels and a kept one, or a private one.      *)
(***************************************************************************)
EXTENDS Closing, TLC

CONSTANTS c1, c2, c3, c4

Nothing == [name \in CloseNames |-> 0]

(* A file that leaves out everything but the paths.                        *)
Bare ==
    [AllocationPercent |-> 0, MinBatchSize |-> 0, MinChannels |-> 0,
     MaxChannels |-> 0, MinChannelSize |-> 0, MaxChannelSize |-> 0,
     TargetConf |-> 0, MinConf |-> 0, MaxSatvB |-> 0, FeeRatePPM |-> 0,
     Close |-> Nothing, Open |-> [name \in OpenNames |-> 0],
     Channels |-> 0, RoutingPolicies |-> 0, Credentials |-> TRUE]

(* Some weights only, and the lowest number of channels.                   *)
Sparse == [Bare EXCEPT !.Close = [Nothing EXCEPT !["PingTime"] = One,
                                                 !["Capacity"] = Tenths(5),
                                                 !["Active"] = Tenths(2)],
                       !.MinChannels = 1]

SomeFiles ==
    {Bare, Sparse,
     [Bare EXCEPT !.AllocationPercent = 101],
     [Bare EXCEPT !.MinChannelSize = 19999],
     [Bare EXCEPT !.MinChannelSize = 10000001],
     [Bare EXCEPT !.MaxChannelSize = 30000],
     [Bare EXCEPT !.MaxChannels = 1],
     [Bare EXCEPT !.TargetConf = 1],
     [Bare EXCEPT !.Channels = 3600],
     [Bare EXCEPT !.Close = [Nothing EXCEPT !["Fees"] = One + 1]],
     [Bare EXCEPT !.Open["Degree"] = -1],
     [Bare EXCEPT !.Credentials = FALSE]}

FourChans == {c1, c2, c3, c4}

Report(active, capacity, height, listed, ping, flaps) ==
    [active |-> active, capacity |-> capacity, height |-> height,
     listed |-> listed, ping |-> ping, flaps |-> flaps]

SomeReports ==
    {Report(TRUE, 4, 1, TRUE, 500, 0),
     Report(TRUE, 2, 3, TRUE, -1, 2),
     Report(FALSE, 4, 3, FALSE, 0, 0),
     Report(FALSE, 2, 1, TRUE, 500, 2)}

Forward(in, out, amount, fee) ==
    [in |-> in, out |-> out, amtIn |-> amount, amtOut |-> amount - fee, fee |-> fee]

FourEvents == <<Forward(c1, c2, 7, 1), Forward(c2, c3, 5, 1),
                Forward(c4, c1, 3, 0), Forward(c1, c2, 2, 1)>>
=============================================================================
