CONSTANTS
    Names = {wf}
    OwnIds = {}
    Requests = {r1, r2}
    MaxRows = 1
    MaxProcesses = 1
    MaxFaults = 1
    Enabled = {"MQTT", "KAFKA", "AMQP"}
    EventsBroker = "KAFKA"
    Named = {"MQTT", "KAFKA", "AMQP"}

SPECIFICATION FairSpec
CHECK_DEADLOCK FALSE
INVARIANTS
    BeaconTellsWhoWasAsked
PROPERTIES
    RequestsAnswered
