------------------------- MODULE KitchenStationService -------------------------
(***************************************************************************)
(* app/services/kitchen_station_service.py: the stations of a branch, with *)
(* the three every branch has seeded when a manager first looks.           *)
(***************************************************************************)
EXTENDS CatalogueDatabase

CONSTANT NewCodes \* codes that POST bodies carry

Equipped == Admitted(StationEndpointRoles)

DEFAULT_STATIONS_CONFIG == {"HOT_KITCHEN", "COLD_KITCHEN", "BEVERAGE"}

MissingDefaults(b) == {code \in DEFAULT_STATIONS_CONFIG : UniqueCode(b, code)}

\* list_stations and create_station first make sure of the defaults.
LookForDefaults(e, b, op, code) ==
    /\ edit[e].pc = "new"
    /\ edit' = [edit EXCEPT ![e] =
                   [pc |-> IF MissingDefaults(b) = {} THEN "seeded" ELSE "seeding", op |-> op,
                    branch |-> b, id |-> code, patch |-> MissingDefaults(b),
                    tell |-> "nothing"]]
    /\ UNCHANGED <<rows, used, cart, effects>>

ListStations(e, b)        == LookForDefaults(e, b, "STATIONS_LISTED", None)
CreateStation(e, b, code) == LookForDefaults(e, b, "STATION_CREATED", code)

NewStation(b, code) == [branch_id |-> b, code |-> code, is_active |-> TRUE]

\* One commit for all that were missing; uq_kitchen_station_branch_code refuses it
\* whole when another request was faster.
SeedDefaults(e) ==
    LET b == edit[e].branch
    IN  /\ edit[e].pc = "seeding"
        /\ \A code \in edit[e].patch : UniqueCode(b, code)
        /\ \E id \in [edit[e].patch -> Fresh(StationIds)] :
              /\ \A x, y \in edit[e].patch : id[x] = id[y] => x = y
              /\ station' = [s \in StationIds |->
                                IF \E code \in edit[e].patch : id[code] = s
                                THEN NewStation(b, CHOOSE code \in edit[e].patch : id[code] = s)
                                ELSE station[s]]
              /\ used' = used \cup {id[code] : code \in edit[e].patch}
        /\ Step(e, "seeded")
        /\ UNCHANGED <<category, item, group, option, line, cart, effects>>

ReadStations(e) ==
    /\ edit[e].pc = "seeded"
    /\ edit[e].op = "STATIONS_LISTED"
    /\ Respond(e)
    /\ UNCHANGED <<rows, used, cart, effects>>

CheckDuplicate(e) ==
    /\ edit[e].pc = "seeded"
    /\ edit[e].op = "STATION_CREATED"
    /\ UniqueCode(edit[e].branch, edit[e].id)
    /\ Step(e, "loaded")
    /\ UNCHANGED <<rows, used, cart, effects>>

InsertStation(e, s, active) ==
    /\ Loaded(e, {"STATION_CREATED"})
    /\ s \in Fresh(StationIds)
    /\ UniqueCode(edit[e].branch, edit[e].id)
    /\ station' = [station EXCEPT ![s] =
                      [branch_id |-> edit[e].branch, code |-> edit[e].id, is_active |-> active]]
    /\ used' = used \cup {s}
    /\ Respond(e)
    /\ UNCHANGED <<category, item, group, option, line, cart, effects>>

\* Neither an available item nor an active category is assigned to it.
NoActiveReferences(s) ==
    /\ \A i \in ItemIds : ~(item[i] # None /\ item[i].station_id = s /\ item[i].is_available)
    /\ \A c \in CategoryIds :
          ~(category[c] # None /\ category[c].station_id = s /\ category[c].is_active)

UpdateStation(e, b, s, active) ==
    /\ StationIn(s, b)
    /\ ~active /\ station[s].is_active => NoActiveReferences(s)
    /\ Load(e, "STATION_UPDATED", b, s, Changed([is_active |-> active], station[s]), "nothing")

DeleteStation(e, b, s, soft) ==
    /\ StationIn(s, b)
    /\ NoActiveReferences(s)
    /\ IF soft THEN Load(e, "STATION_UPDATED", b, s,
                         Changed([is_active |-> FALSE], station[s]), "nothing")
       ELSE Load(e, "STATION_DELETED", b, s, None, "nothing")

\* An UPDATE of a row that is gone raises (StaleDataError): AbortEdit.
WriteStation(e) ==
    LET s == edit[e].id
    IN  /\ Loaded(e, {"STATION_UPDATED"})
        /\ station[s] # None
        /\ station' = [station EXCEPT ![s].is_active =
                          Written(edit[e].patch, "is_active", @)]
        /\ Respond(e)
        /\ UNCHANGED <<category, item, group, option, line, used, cart, effects>>

RemoveStation(e) ==
    LET s == edit[e].id
    IN  /\ Loaded(e, {"STATION_DELETED"})
        /\ station'  = Without(station, {s})
        /\ category' = Unassigned(category, s)
        /\ item'     = Unassigned(item, s)
        /\ line'     = Unassigned(line, s)
        /\ Respond(e)
        /\ UNCHANGED <<group, option, used, cart, effects>>

-----------------------------------------------------------------------------
StationBegin(e) ==
    \E b \in Equipped :
       \/ ListStations(e, b)
       \/ \E code \in NewCodes : CreateStation(e, b, code)
       \/ \E s \in StationIds : \/ \E active \in BOOLEAN : UpdateStation(e, b, s, active)
                                \/ \E soft \in BOOLEAN : DeleteStation(e, b, s, soft)

StationCommit(e) ==
    \/ SeedDefaults(e) \/ ReadStations(e) \/ CheckDuplicate(e)
    \/ \E s \in StationIds, active \in BOOLEAN : InsertStation(e, s, active)
    \/ WriteStation(e) \/ RemoveStation(e)
===============================================================================
