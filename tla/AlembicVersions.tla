--------------------------- MODULE AlembicVersions ---------------------------
(***************************************************************************)
(* The revisions under alembic/versions: an upgrade and a downgrade are    *)
(* lists of statements, each a verb and what it is about. An object of the *)
(* schema is a path: <<table>>, <<table, column>>, an index below its      *)
(* table or below the column it goes with, <<"enum", type>>, or            *)
(* <<"enum", type, value>>.                                                *)
(***************************************************************************)
EXTENDS Integers, SequencesExt

All(verb, objects) == [n \in DOMAIN objects |-> <<verb, objects[n]>>]
create(objects) == All("create", objects)
ensure(objects) == All("ensure", objects)   \* the ones IF NOT EXISTS
drop(objects) == All("drop", objects)
discard(objects) == All("discard", objects) \* the ones IF EXISTS
seed(table) == All("seed", << <<table>> >>)

Enum(type) == <<"enum", type>>

InitialEnums == <<Enum("user_role"), Enum("camera_protocol"), Enum("camera_status"),
                  Enum("storage_backend"), Enum("alert_trigger")>>
RecordingObjects == <<<<"recordings">>, <<"recordings", "camera_started">>>>
DetectionObjects == <<<<"detection_events">>, <<"detection_events", "camera_time">>,
                      <<"detection_events", "class_time">>,
                      <<"detection_events", "occurred_at">>>>

\* Tables and their indexes.
InitialObjects == <<<<"users">>, <<"cameras">>>> \o RecordingObjects
                  \o DetectionObjects \o <<<<"alert_rules">>>>

\* sa.Enum creates its type with the table that uses it first.
initial == [
    upgrade |-> create(InitialEnums \o InitialObjects),
    downgrade |-> drop(Reverse(InitialObjects)) \o discard(Reverse(InitialEnums))]

tuya_integration == [
    upgrade |-> ensure(<<<<"enum", "camera_protocol", "tuya">>,
                         Enum("cloud_provider")>>)
                \o create(<<<<"cloud_integrations">>,
                            <<"cloud_integrations", "provider_enabled">>>>),
    downgrade |-> drop(<<<<"cloud_integrations", "provider_enabled">>,
                         <<"cloud_integrations">>>>)
                  \o discard(<<Enum("cloud_provider")>>)]

camera_geo == [
    upgrade |-> create(<<<<"cameras", "latitude">>, <<"cameras", "longitude">>,
                         <<"cameras", "latitude", "geo">>>>),
    downgrade |-> drop(<<<<"cameras", "latitude", "geo">>, <<"cameras", "longitude">>,
                         <<"cameras", "latitude">>>>)]

system_config == [
    upgrade |-> ensure(<<Enum("storage_mode")>>) \o create(<<<<"system_config">>>>)
                \o seed("system_config"),
    downgrade |-> drop(<<<<"system_config">>>>) \o discard(<<Enum("storage_mode")>>)]

detection_classes == [
    upgrade |-> create(<<<<"system_config", "detection_classes">>>>),
    downgrade |-> drop(<<<<"system_config", "detection_classes">>>>)]

camera_pin_order == [
    upgrade |-> create(<<<<"cameras", "pinned_to_dashboard">>,
                         <<"cameras", "display_order">>,
                         <<"cameras", "display_order", "in_order">>>>),
    downgrade |-> drop(<<<<"cameras", "display_order", "in_order">>,
                         <<"cameras", "display_order">>,
                         <<"cameras", "pinned_to_dashboard">>>>)]

RuleColumns == <<<<"alert_rules", "description">>, <<"alert_rules", "severity">>,
                 <<"alert_rules", "object_classes">>,
                 <<"alert_rules", "min_confidence">>,
                 <<"alert_rules", "last_fired_at">>>>
EventIndexes == <<<<"alert_events", "occurred_at">>,
                  <<"alert_events", "rule_occurred">>, <<"alert_events", "unack">>>>

alert_events == [
    upgrade |-> ensure(<<Enum("alert_severity")>>) \o create(RuleColumns)
                \o create(<<<<"alert_events">>>> \o EventIndexes)
                \o seed("alert_rules"),
    downgrade |-> drop(Reverse(EventIndexes) \o <<<<"alert_events">>>>
                       \o Reverse(RuleColumns))
                  \o discard(<<Enum("alert_severity")>>)]

notifications == [
    upgrade |-> create(<<<<"notification_settings">>>>)
                \o seed("notification_settings"),
    downgrade |-> drop(<<<<"notification_settings">>>>)]

versions == <<initial, tuya_integration, camera_geo, system_config,
              detection_classes, camera_pin_order, alert_events, notifications>>

\* Foreign keys, and columns of an enum type: <<what, needs>>.
foreign_keys == {
    << <<"users">>, Enum("user_role")>>, << <<"cameras">>, Enum("camera_protocol")>>,
    << <<"cameras">>, Enum("camera_status")>>, << <<"recordings">>, <<"cameras">> >>,
    << <<"recordings">>, Enum("storage_backend")>>,
    << <<"detection_events">>, <<"cameras">> >>,
    << <<"detection_events">>, <<"recordings">> >>,
    << <<"alert_rules">>, <<"cameras">> >>,
    << <<"alert_rules">>, Enum("alert_trigger")>>,
    << <<"cloud_integrations">>, Enum("cloud_provider")>>,
    << <<"system_config">>, Enum("storage_mode")>>,
    << <<"alert_rules", "severity">>, Enum("alert_severity")>>,
    << <<"alert_events">>, Enum("alert_severity")>>,
    << <<"alert_events">>, <<"alert_rules">> >>, << <<"alert_events">>, <<"users">> >>,
    << <<"alert_events">>, <<"cameras">> >>,
    << <<"alert_events">>, <<"detection_events">> >>,
    << <<"notification_settings">>, Enum("alert_severity")>>}

\* ON CONFLICT (id) DO NOTHING keeps the one row of these; the ids of the
\* default rules are new every time and conflict with nothing.
singletons == {<<"system_config">>, <<"notification_settings">>}
=============================================================================
