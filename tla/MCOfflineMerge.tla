---------------------------- MODULE MCOfflineMerge ----------------------------
(***************************************************************************)
(* Instances of OfflineMerge for TLC.                                      *)
(***************************************************************************)
EXTENDS OfflineMerge

\* The guest's clock behind, ahead by more than half of the range, and far
\* ahead of the host's; a guest counter that started at 0 and one that is the
\* host's.
MCWorlds == {[host |-> 20, guest |-> 2, tsc |-> 9, tscOffset |-> -8],
             [host |-> 1, guest |-> 50, tsc |-> 9, tscOffset |-> 0],
             [host |-> 60, guest |-> 2, tsc |-> 1, tscOffset |-> 3]}

\* Kinds of packets, one at every unit of time from t on.
From(t, kinds) == [k \in 1 .. Len(kinds) |-> [kind |-> kinds[k], at |-> t + k]]

MCKinds == {<<"plain">>, <<"event">>, <<"plain", "event">>, <<"event", "cpu">>,
            <<"cpu", "event", "cpu">>, <<"cpu", "cpuFirst", "event">>,
            <<"many", "event", "cpu">>, <<"cpu", "clocks", "cpu", "event">>,
            <<"monotonic", "event", "monotonic">>,
            <<"cpu", "event", "event", "cpu">>}
MCHostTraces == {From(t, k) : t \in {0, 3}, k \in MCKinds}
MCGuestTraces == {From(1, k) : k \in MCKinds}

Tsc == [is |-> "--guest-tsc-offset", val |-> 0]
IntoHost == [is |-> "--merge-guest-into-host", val |-> 0]
Junk == [is |-> "junk", val |-> 0]
Num(n) == [is |-> "number", val |-> n]
Prefixed(n) == [is |-> "prefixed", val |-> n]
Line(n, opts) == [by |-> "main", files |-> n, options |-> opts]

MCCommandLines ==
    {Line(2, <<>>)} \cup
    {Line(3, o) : o \in {<<>>, <<IntoHost>>, <<Tsc, Num(-8)>>,
                         <<Tsc, Num(3), IntoHost>>, <<IntoHost, Tsc, Num(-8)>>,
                         <<Num(30)>>, <<Num(-3), IntoHost>>, <<Tsc, IntoHost>>,
                         <<Num(5), Tsc>>, <<Tsc, Num(-8), Tsc, Num(3)>>,
                         <<Tsc, Num(3), Num(22)>>, <<IntoHost, Junk>>,
                         <<Tsc, Prefixed(3)>>, <<Prefixed(12), IntoHost>>,
                         <<Tsc, Num(Half)>>, <<Num(-Word)>>}}

MCConfigs ==
    {[DefaultConfig EXCEPT !.useGuestTimeDiff = TRUE, !.guestClockTimeDiffNs = 7],
     [DefaultConfig EXCEPT !.useGuestTimeDiff = TRUE, !.guestClockTimeDiffNs = 7,
                           !.useGuestAbsoluteTime = TRUE,
                           !.guestClockBootTimeNs = 12]}
=============================================================================
