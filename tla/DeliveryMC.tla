----------------------------- MODULE DeliveryMC -----------------------------
(* Delivery with one ingest, one socket and one bulk request. *)
EXTENDS Delivery

i1 == "i1"
\* Two of the three channels of /ws/events/stream.
StreamEndpoint == {{Detection, "events.alerts"}}
Other == {<<"other", 1>>, <<"other", 2>>}
SomeRequests == ({i1} \X {"push", "telegram"}) \cup Other
OneBulk ==
    {[r \in Other |-> [channel |-> IF r[2] = 1 THEN "webhook" ELSE "push",
                       target |-> TRUE]]}
SomeRules == {<<"realtime", "push", "telegram">>, <<>>}
WebhookRequests == {<<i1, "webhook">>}
WebhookRule == {<<"webhook">>}
=============================================================================
