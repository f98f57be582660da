------------------------ MODULE CatalogueHistory_proofs ------------------------
(***************************************************************************)
(* For every menu and every number of requests: displays hear only of what *)
(* was committed, and guests pay only what was on sale while they ordered. *)
(***************************************************************************)
EXTENDS CatalogueHistory, Catalogue_proofs

-----------------------------------------------------------------------------
(* What the edits are to broadcast *)

TellsOK == \A x \in {edit[e] : e \in Edits} : TellsStored(x)

ToldOK == DOMAIN told = ItemIds \cup OptionIds /\ BroadcastsWereStored

\* What a step does to the broadcasts that are still to come, and to those made.
TellsStep == TellsOK' /\ ToldOK'

LEMMA HadGrows ==
    ASSUME Watched
    PROVE  had \subseteq had' /\ Availabilities' \subseteq had'
BY DEF Watched

LEMMA TellsStay ==
    ASSUME Watched, NEW x, TellsStored(x)
    PROVE  TellsStored(x)'
BY HadGrows DEF TellsStored

LEMMA ToldStays ==
    ASSUME Watched, ToldOK, told' = told
    PROVE  ToldOK'
BY HadGrows DEF ToldOK, BroadcastsWereStored

\* One staff request goes on to x.
LEMMA TellsMove ==
    ASSUME Watched, IInv, TellsOK, NEW e \in Edits, NEW x, edit' = [edit EXCEPT ![e] = x],
           TellsStored(x)'
    PROVE  TellsOK'
<1>1. DOMAIN edit = Edits
  BY DEF IInv, TypeOK
<1>2. \A f \in Edits : edit'[f] = IF f = e THEN x ELSE edit[f]
  BY <1>1
<1>3. ASSUME NEW f \in Edits
      PROVE  TellsStored(edit[f])'
  <2>1. CASE f = e
    BY <1>2, <2>1
  <2>2. CASE f # e
    <3>1. PICK y : y = edit[f] /\ TellsStored(y)
      BY DEF TellsOK
    <3>2. TellsStored(y)'
      BY <3>1, TellsStay
    <3> QED
      BY <1>2, <2>2, <3>1, <3>2
  <2> QED
    BY <2>1, <2>2
<1> QED
  BY <1>3 DEF TellsOK

LEMMA TellsUnchanged ==
    ASSUME Watched, TellsOK, ToldOK, UNCHANGED <<edit, told>>
    PROVE  TellsStep
<1>1. ASSUME NEW f \in Edits
      PROVE  TellsStored(edit[f])'
  <2>1. PICK y : y = edit[f] /\ TellsStored(y)
    BY DEF TellsOK
  <2>2. TellsStored(y)'
    BY <2>1, TellsStay
  <2> QED
    BY <2>1, <2>2
<1> QED
  BY <1>1, ToldStays DEF TellsOK, TellsStep

\* A staff request that answers has nothing to broadcast any more.
LEMMA TellsRespond ==
    ASSUME Watched, IInv, TellsOK, ToldOK, NEW e \in Edits, Respond(e), told' = told
    PROVE  TellsStep
<1> DEFINE x == [pc |-> "done", op |-> "none", branch |-> None, id |-> None,
                 patch |-> None, tell |-> "nothing"]
<1>1. TellsStored(x)'
  BY DEF TellsStored
<1>2. edit' = [edit EXCEPT ![e] = x]
  BY DEF Respond
<1> HIDE DEF x
<1> QED
  BY <1>1, <1>2, TellsMove, ToldStays DEF TellsStep

\* A staff request goes on, with nothing to broadcast or with what was committed.
LEMMA TellsAdvance ==
    ASSUME Watched, IInv, TellsOK, NEW e \in Edits, NEW pc, NEW op, NEW id, NEW tell,
           Advance(e, pc, tell), op = edit[e].op, id = edit[e].id,
           tell # "nothing" =>
              /\ pc \in {"committed", "refreshed"}
              /\ op \in Switches /\ id \in ItemIds \cup OptionIds
              /\ \/ tell = "stored" /\ pc # "refreshed" /\ op # "ITEM_DEACTIVATED"
                 \/ tell \in {"available", "sold_out"} /\ <<id, tell>> \in had'
    PROVE  TellsOK'
<1>1. PICK b : b = edit[e].branch
  OBVIOUS
<1> DEFINE x == [pc |-> pc, op |-> op, branch |-> b, id |-> id, patch |-> None, tell |-> tell]
<1>2. TellsStored(x)'
  BY DEF TellsStored
<1>3. edit' = [edit EXCEPT ![e] = x]
  <2>1. DOMAIN edit = Edits
    BY DEF IInv, TypeOK
  <2> QED
    BY <1>1, <2>1 DEF Advance
<1> HIDE DEF x
<1> QED
  BY <1>2, <1>3, TellsMove

\* A staff request passes its checks.
LEMMA TellsLoad ==
    ASSUME Watched, IInv, TellsOK, ToldOK, NEW e \in Edits, NEW op, NEW b, NEW id, NEW patch,
           NEW tell, Load(e, op, b, id, patch, tell),
           TellsStored([pc |-> "loaded", op |-> op, branch |-> b, id |-> id, patch |-> patch,
                        tell |-> tell])
    PROVE  TellsStep
<1> DEFINE x == [pc |-> "loaded", op |-> op, branch |-> b, id |-> id, patch |-> patch,
                 tell |-> tell]
<1>1. TellsStored(x)'
  BY TellsStay
<1>2. edit' = [edit EXCEPT ![e] = x] /\ told' = told
  BY DEF Load, effects
<1> HIDE DEF x
<1> QED
  BY <1>1, <1>2, TellsMove, ToldStays DEF TellsStep

\* A request that changes no availability passes its checks.
LEMMA QuietLoad ==
    ASSUME Watched, IInv, TellsOK, ToldOK, NEW e \in Edits, NEW op, NEW b, NEW id, NEW patch,
           Load(e, op, b, id, patch, "nothing")
    PROVE  TellsStep
<1>1. TellsStored([pc |-> "loaded", op |-> op, branch |-> b, id |-> id, patch |-> patch,
                   tell |-> "nothing"])
  BY DEF TellsStored
<1> QED
  BY <1>1, TellsLoad

\* A switch of a row that stands so already changes nothing: it was committed before.
LEMMA SwitchLoad ==
    ASSUME Watched, IInv, TellsOK, ToldOK, Availabilities \subseteq had, NEW e \in Edits,
           NEW op \in Switches, NEW b, NEW id \in ItemIds \cup OptionIds, Present(id),
           NEW flag \in BOOLEAN, NEW row, Stored(id) = Availability(row.is_available),
           row.is_available \in BOOLEAN,
           Load(e, op, b, id, Changed([is_available |-> flag], row), Availability(flag))
    PROVE  TellsStep
<1>1. PICK patch : patch = Changed([is_available |-> flag], row)
  OBVIOUS
<1>2. PICK tell : tell = Availability(flag)
  OBVIOUS
<1>3. tell \in {"available", "sold_out"}
  BY <1>2 DEF Availability
<1>4. CASE flag = row.is_available
  <2>1. <<id, tell>> \in had
    BY <1>2, <1>4 DEF Availabilities
  <2>2. TellsStored([pc |-> "loaded", op |-> op, branch |-> b, id |-> id, patch |-> patch,
                     tell |-> tell])
    BY <1>3, <2>1 DEF TellsStored
  <2> QED
    BY <1>1, <1>2, <2>2, TellsLoad
<1>5. CASE flag # row.is_available
  <2>1. "is_available" \in DOMAIN patch /\ patch.is_available = flag
    BY <1>1, <1>5 DEF Changed
  <2>2. TellsStored([pc |-> "loaded", op |-> op, branch |-> b, id |-> id, patch |-> patch,
                     tell |-> tell])
    BY <1>2, <1>3, <2>1 DEF TellsStored
  <2> QED
    BY <1>1, <1>2, <2>2, TellsLoad
<1> QED
  BY <1>4, <1>5

\* A row that is there stands in the table under its availability.
LEMMA StoredAvailability ==
    ASSUME IInv
    PROVE  /\ \A i \in ItemIds : item[i] # None =>
                 /\ Present(i) /\ Stored(i) = Availability(item[i].is_available)
                 /\ item[i].is_available \in BOOLEAN
           /\ \A o \in OptionIds : option[o] # None =>
                 /\ Present(o) /\ Stored(o) = Availability(option[o].is_available)
                 /\ option[o].is_available \in BOOLEAN
<1>1. \A i \in ItemIds : item[i] # None => item[i] \in ItemRow
  BY DEF IInv, TypeOK, RowsOK
<1>2. \A o \in OptionIds : option[o] # None => option[o] \in OptionRow
  BY DEF IInv, TypeOK, RowsOK
<1>3. \A o \in OptionIds : o \notin ItemIds
  BY IdsAssumption
<1> QED
  BY <1>1, <1>2, <1>3 DEF Present, Stored, ItemRow, OptionRow

LEMMA MenuBeginTells ==
    ASSUME Watched, IInv, TellsOK, ToldOK, Availabilities \subseteq had, NEW e \in Edits,
           MenuBegin(e)
    PROVE  TellsStep
<1>1. PICK b \in Managed :
         \/ \E c \in CategoryIds : \/ CreateCategory(e, b, c)
                                   \/ UpdateCategory(e, b, c)
                                   \/ \E soft \in BOOLEAN : DeleteCategory(e, b, c, soft)
         \/ \E i \in ItemIds : \/ CreateItem(e, b, i)
                               \/ UpdateItem(e, b, i)
                               \/ \E f \in BOOLEAN : SetItemAvailability(e, b, i, f)
                               \/ \E soft \in BOOLEAN : DeleteItem(e, b, i, soft)
                               \/ \E g \in GroupIds : CreateModifierGroup(e, b, i, g)
         \/ \E g \in GroupIds : \/ DeleteModifierGroup(e, b, g)
                                \/ \E o \in OptionIds : CreateModifierOption(e, b, g, o)
         \/ \E o \in OptionIds : \/ UpdateModifierOption(e, b, o)
                                 \/ \E f \in BOOLEAN : SetOptionAvailability(e, b, o, f)
                                 \/ DeleteModifierOption(e, b, o)
  BY DEF MenuBegin
<1>2. ASSUME NEW c \in CategoryIds,
             \/ CreateCategory(e, b, c) \/ UpdateCategory(e, b, c)
             \/ \E soft \in BOOLEAN : DeleteCategory(e, b, c, soft)
      PROVE  TellsStep
  BY <1>2, QuietLoad DEF CreateCategory, UpdateCategory, DeleteCategory
<1>3. ASSUME NEW i \in ItemIds,
             CreateItem(e, b, i) \/ \E g \in GroupIds : CreateModifierGroup(e, b, i, g)
      PROVE  TellsStep
  BY <1>3, QuietLoad DEF CreateItem, CreateModifierGroup
<1>4. ASSUME NEW i \in ItemIds, UpdateItem(e, b, i)
      PROVE  TellsStep
  <2>1. PICK body \in ItemBodies :
           Load(e, "ITEM_UPDATED", b, i, Changed(body, item[i]),
                IF "is_available" \in DOMAIN body THEN "stored" ELSE "nothing")
    BY <1>4 DEF UpdateItem
  <2>2. PICK patch, tell :
           /\ Load(e, "ITEM_UPDATED", b, i, patch, tell) /\ tell \in {"stored", "nothing"}
    BY <2>1
  <2>3. TellsStored([pc |-> "loaded", op |-> "ITEM_UPDATED", branch |-> b, id |-> i,
                     patch |-> patch, tell |-> tell])
    BY <2>2 DEF TellsStored, Switches
  <2> QED
    BY <2>2, <2>3, TellsLoad
<1>5. ASSUME NEW i \in ItemIds, NEW f \in BOOLEAN, SetItemAvailability(e, b, i, f)
      PROVE  TellsStep
  <2>1. PICK op \in Switches : Load(e, op, b, i, Changed([is_available |-> f], item[i]),
                                    Availability(f))
    BY <1>5 DEF SetItemAvailability, Switches
  <2>2. item[i] # None
    BY <1>5 DEF SetItemAvailability, ItemIn
  <2> QED
    BY <2>1, <2>2, SwitchLoad, StoredAvailability
<1>6. ASSUME NEW i \in ItemIds, NEW soft \in BOOLEAN, DeleteItem(e, b, i, soft)
      PROVE  TellsStep
  <2>1. CASE ~soft
    BY <1>6, <2>1, QuietLoad DEF DeleteItem
  <2>2. CASE soft
    <3>1. Load(e, "ITEM_DEACTIVATED", b, i, Changed([is_available |-> FALSE], item[i]),
               Availability(FALSE))
      BY <1>6, <2>2 DEF DeleteItem, Availability
    <3>2. "ITEM_DEACTIVATED" \in Switches /\ item[i] # None
      BY <1>6 DEF DeleteItem, ItemIn, Switches
    <3> QED
      BY <3>1, <3>2, SwitchLoad, StoredAvailability
  <2> QED
    BY <2>1, <2>2
<1>7. ASSUME NEW g \in GroupIds,
             \/ DeleteModifierGroup(e, b, g)
             \/ \E o \in OptionIds : CreateModifierOption(e, b, g, o)
      PROVE  TellsStep
  BY <1>7, QuietLoad DEF DeleteModifierGroup, CreateModifierOption
<1>8. ASSUME NEW o \in OptionIds, UpdateModifierOption(e, b, o)
      PROVE  TellsStep
  <2>1. PICK body \in OptionBodies :
           Load(e, "MODIFIER_OPTION_UPDATED", b, o, Changed(body, option[o]),
                IF "is_available" \in DOMAIN body THEN "stored" ELSE "nothing")
    BY <1>8 DEF UpdateModifierOption
  <2>2. PICK patch, tell :
           /\ Load(e, "MODIFIER_OPTION_UPDATED", b, o, patch, tell)
           /\ tell \in {"stored", "nothing"}
    BY <2>1
  <2>3. TellsStored([pc |-> "loaded", op |-> "MODIFIER_OPTION_UPDATED", branch |-> b,
                     id |-> o, patch |-> patch, tell |-> tell])
    BY <2>2 DEF TellsStored, Switches
  <2> QED
    BY <2>2, <2>3, TellsLoad
<1>9. ASSUME NEW o \in OptionIds, NEW f \in BOOLEAN, SetOptionAvailability(e, b, o, f)
      PROVE  TellsStep
  <2>1. PICK op \in Switches : Load(e, op, b, o, Changed([is_available |-> f], option[o]),
                                    Availability(f))
    BY <1>9 DEF SetOptionAvailability, Switches
  <2>2. option[o] # None
    BY <1>9 DEF SetOptionAvailability, OptionIn
  <2> QED
    BY <2>1, <2>2, SwitchLoad, StoredAvailability
<1>10. ASSUME NEW o \in OptionIds, DeleteModifierOption(e, b, o)
       PROVE  TellsStep
  BY <1>10, QuietLoad DEF DeleteModifierOption
<1> QED
  BY <1>1, <1>2, <1>3, <1>4, <1>5, <1>6, <1>7, <1>8, <1>9, <1>10

\* Commits that touch no availability end requests that have nothing to broadcast.
LEMMA QuietCommit ==
    ASSUME Watched, IInv, TellsOK, ToldOK, NEW e \in Edits, told' = told,
           edit[e].pc \notin {"loaded", "committed", "refreshed"} \/ edit[e].op \notin Switches,
           \E pc : Step(e, pc)
    PROVE  TellsStep
<1>1. PICK x : x = edit[e] /\ TellsStored(x)
  BY DEF TellsOK
<1>2. x.tell = "nothing"
  BY <1>1 DEF TellsStored
<1>3. PICK pc : Advance(e, pc, "nothing")
  BY <1>1, <1>2 DEF Step
<1>4. TellsOK'
  BY <1>3, TellsAdvance
<1> QED
  BY <1>4, ToldStays DEF TellsStep

\* A commit of an availability: from now on it was stored.
LEMMA SwitchCommit ==
    ASSUME Watched, IInv, TellsOK, ToldOK, NEW e \in Edits, told' = told,
           edit[e].pc = "loaded", edit[e].op \in Switches,
           NEW pc \in {"committed", "refreshed"}, Step(e, pc),
           edit[e].op # "ITEM_DEACTIVATED" => pc = "committed",
           "is_available" \in DOMAIN edit[e].patch =>
              <<edit[e].id, Availability(edit[e].patch.is_available)>> \in Availabilities'
    PROVE  TellsStep
<1>1. PICK x : x = edit[e] /\ TellsStored(x)
  BY DEF TellsOK
<1>2. PICK op, id, tell : op = x.op /\ id = x.id /\ tell = x.tell
  OBVIOUS
<1>3. Advance(e, pc, tell)
  BY <1>1, <1>2 DEF Step
<1>4. tell \in {"available", "sold_out"} => <<id, tell>> \in had'
  BY <1>1, <1>2, HadGrows DEF TellsStored
<1>5. TellsOK'
  BY <1>1, <1>2, <1>3, <1>4, TellsAdvance DEF TellsStored
<1> QED
  BY <1>5, ToldStays DEF TellsStep

LEMMA WriteItemTells ==
    ASSUME Watched, IInv, TellsOK, ToldOK, NEW e \in Edits, WriteItem(e)
    PROVE  TellsStep
<1>1. PICK x : /\ edit[e] = x /\ x.pc = "loaded"
               /\ x.op \in {"ITEM_UPDATED", "ITEM_RESTOCKED", "ITEM_86_TRIGGERED",
                            "ITEM_DEACTIVATED"}
               /\ LoadedItem(x) /\ RowInv
  BY LoadedRequest DEF WriteItem
<1>2. PICK i, patch : i = x.id /\ patch = x.patch
  OBVIOUS
<1>3. /\ i \in ItemIds /\ ItemPatch(patch) /\ item[i] # None /\ told' = told
      /\ item' = [item EXCEPT ![i] = PatchedItem(@, patch)]
  BY <1>1, <1>2 DEF WriteItem, LoadedItem, effects
<1>4. item[i] \in ItemRow /\ DOMAIN item = ItemIds
  BY <1>1, <1>3 DEF RowInv, RowsOK
<1>5. /\ PatchedItem(item[i], patch) \in ItemRow
      /\ "is_available" \in DOMAIN patch =>
            PatchedItem(item[i], patch).is_available = patch.is_available
  BY <1>1, <1>2, <1>3, <1>4 DEF PatchedItem, Written, ItemPatch, ItemRow, LoadedItem
<1>6. /\ item'[i] # None
      /\ "is_available" \in DOMAIN patch => item'[i].is_available = patch.is_available
  BY <1>3, <1>4, <1>5, IdsAssumption
<1>7. "is_available" \in DOMAIN patch => <<i, Availability(patch.is_available)>> \in Availabilities'
  BY <1>3, <1>6 DEF Availabilities, Stored, Present
<1>8. PICK pc \in {"committed", "refreshed"} :
         Step(e, pc) /\ (edit[e].op # "ITEM_DEACTIVATED" => pc = "committed")
  BY <1>1 DEF WriteItem
<1> QED
  BY <1>1, <1>2, <1>3, <1>7, <1>8, SwitchCommit DEF Switches

LEMMA WriteOptionTells ==
    ASSUME Watched, IInv, TellsOK, ToldOK, NEW e \in Edits, WriteOption(e)
    PROVE  TellsStep
<1>1. PICK x : /\ edit[e] = x /\ x.pc = "loaded"
               /\ x.op \in {"MODIFIER_OPTION_UPDATED", "MODIFIER_OPTION_RESTOCKED",
                            "MODIFIER_OPTION_86_TRIGGERED"}
               /\ LoadedModifier(x) /\ RowInv
  BY LoadedRequest DEF WriteOption
<1>2. PICK o, patch : o = x.id /\ patch = x.patch
  OBVIOUS
<1>3. /\ o \in OptionIds /\ OptionPatch(patch) /\ option[o] # None /\ told' = told
      /\ option' = [option EXCEPT ![o] = PatchedOption(@, patch)]
  BY <1>1, <1>2 DEF WriteOption, LoadedModifier, effects
<1>4. option[o] \in OptionRow /\ DOMAIN option = OptionIds
  BY <1>1, <1>3 DEF RowInv, RowsOK
<1>5. /\ PatchedOption(option[o], patch) \in OptionRow
      /\ "is_available" \in DOMAIN patch =>
            PatchedOption(option[o], patch).is_available = patch.is_available
  BY <1>3, <1>4 DEF PatchedOption, Written, OptionPatch, OptionRow
<1>6. /\ option'[o] # None /\ o \notin ItemIds
      /\ "is_available" \in DOMAIN patch => option'[o].is_available = patch.is_available
  BY <1>3, <1>4, <1>5, IdsAssumption
<1>7. "is_available" \in DOMAIN patch => <<o, Availability(patch.is_available)>> \in Availabilities'
  BY <1>3, <1>6 DEF Availabilities, Stored, Present
<1>8. Step(e, "committed")
  BY DEF WriteOption
<1> QED
  BY <1>1, <1>2, <1>3, <1>7, <1>8, SwitchCommit DEF Switches

LEMMA MenuCommitTells ==
    ASSUME Watched, IInv, TellsOK, ToldOK, NEW e \in Edits, MenuCommit(e)
    PROVE  TellsStep
<1>1. CASE InsertCategory(e) \/ WriteCategory(e) \/ RemoveCategory(e)
  <2>1. edit[e].op \notin Switches /\ told' = told /\ \E pc : Step(e, pc)
    BY <1>1 DEF InsertCategory, WriteCategory, RemoveCategory, Loaded, Switches, effects
  <2> QED
    BY <2>1, QuietCommit
<1>2. CASE InsertItem(e) \/ RemoveItem(e) \/ InsertGroup(e) \/ RemoveGroup(e)
  <2>1. edit[e].op \notin Switches /\ told' = told /\ \E pc : Step(e, pc)
    BY <1>2 DEF InsertItem, RemoveItem, InsertGroup, RemoveGroup, Loaded, Switches, effects
  <2> QED
    BY <2>1, QuietCommit
<1>3. CASE InsertOption(e) \/ RemoveOption(e)
  <2>1. edit[e].op \notin Switches /\ told' = told /\ \E pc : Step(e, pc)
    BY <1>3 DEF InsertOption, RemoveOption, Loaded, Switches, effects
  <2> QED
    BY <2>1, QuietCommit
<1> QED
  BY <1>1, <1>2, <1>3, WriteItemTells, WriteOptionTells DEF MenuCommit

\* A PATCH broadcasts what it reads back, and so what was committed, though perhaps not by it.
LEMMA RefreshTells ==
    ASSUME Watched, IInv, TellsOK, ToldOK, Availabilities \subseteq had, NEW e \in Edits,
           Refresh(e)
    PROVE  TellsStep
<1>1. PICK x : x = edit[e] /\ TellsStored(x) /\ x.pc = "committed"
  BY DEF TellsOK, Refresh
<1>2. PICK op, id : op = x.op /\ id = x.id
  OBVIOUS
<1>3. PICK tell : tell = IF x.tell = "stored" THEN Stored(id) ELSE x.tell
  OBVIOUS
<1>4. Present(id) /\ Advance(e, "refreshed", tell) /\ told' = told
  BY <1>1, <1>2, <1>3 DEF Refresh, effects
<1>5. Stored(id) \in {"available", "sold_out"}
  BY DEF Stored, Availability
<1>6. x.tell = "stored" => <<id, Stored(id)>> \in had
  BY <1>1, <1>2, <1>4 DEF TellsStored, Availabilities
<1>7. tell # "nothing" => /\ op \in Switches /\ id \in ItemIds \cup OptionIds
                          /\ tell \in {"available", "sold_out"} /\ <<id, tell>> \in had
  BY <1>1, <1>2, <1>3, <1>5, <1>6 DEF TellsStored
<1>8. TellsOK'
  BY <1>1, <1>2, <1>4, <1>7, HadGrows, TellsAdvance
<1> QED
  BY <1>4, <1>8, ToldStays DEF TellsStep

LEMMA BroadcastTells ==
    ASSUME Watched, IInv, TellsOK, ToldOK, NEW e \in Edits, Broadcast(e)
    PROVE  TellsStep
<1>1. PICK x : x = edit[e] /\ TellsStored(x) /\ x.pc = "refreshed" /\ x.tell # "nothing"
  BY DEF TellsOK, Broadcast
<1>2. PICK id, tell : id = x.id /\ tell = x.tell
  OBVIOUS
<1>3. Advance(e, "refreshed", "nothing") /\ told' = [told EXCEPT ![id] = tell]
  BY <1>1, <1>2 DEF Broadcast
<1>4. id \in ItemIds \cup OptionIds /\ <<id, tell>> \in had
  BY <1>1, <1>2 DEF TellsStored
<1>5. TellsOK'
  BY <1>3, TellsAdvance
<1>6. ToldOK'
  BY <1>3, <1>4, HadGrows DEF ToldOK, BroadcastsWereStored
<1> QED
  BY <1>5, <1>6 DEF TellsStep

LEMMA MenuAfterTells ==
    ASSUME Watched, IInv, TellsOK, ToldOK, Availabilities \subseteq had, NEW e \in Edits,
           MenuAfter(e) \/ MenuFailure(e) \/ AbortEdit(e)
    PROVE  TellsStep
<1>1. CASE BroadcastFails(e)
  <2>1. Advance(e, "refreshed", "nothing") /\ told' = told
    BY <1>1 DEF BroadcastFails, effects
  <2>2. TellsOK'
    BY <2>1, TellsAdvance
  <2> QED
    BY <2>1, <2>2, ToldStays DEF TellsStep
<1>2. CASE AuditLog(e) \/ AuditFails(e) \/ AbortEdit(e)
  <2>1. Respond(e) /\ told' = told
    BY <1>2 DEF AuditLog, AuditFails, AbortEdit, effects
  <2> QED
    BY <2>1, TellsRespond
<1> QED
  BY <1>1, <1>2, RefreshTells, BroadcastTells DEF MenuAfter, MenuFailure

\* Stations have no availability.
LEMMA StationTells ==
    ASSUME Watched, IInv, TellsOK, ToldOK, NEW e \in Edits, StationBegin(e) \/ StationCommit(e)
    PROVE  TellsStep
<1>1. ASSUME NEW b, NEW op, NEW code, LookForDefaults(e, b, op, code)
      PROVE  TellsStep
  <2>1. PICK pc, patch :
           edit' = [edit EXCEPT ![e] = [pc |-> pc, op |-> op, branch |-> b, id |-> code,
                                        patch |-> patch, tell |-> "nothing"]]
    BY <1>1 DEF LookForDefaults
  <2> DEFINE x == [pc |-> pc, op |-> op, branch |-> b, id |-> code, patch |-> patch,
                   tell |-> "nothing"]
  <2>2. TellsStored(x)'
    BY DEF TellsStored
  <2>3. edit' = [edit EXCEPT ![e] = x] /\ told' = told
    BY <1>1, <2>1 DEF LookForDefaults, effects
  <2> HIDE DEF x
  <2> QED
    BY <2>2, <2>3, TellsMove, ToldStays DEF TellsStep
<1>2. CASE StationBegin(e)
  BY <1>1, <1>2, QuietLoad DEF StationBegin, ListStations, CreateStation, UpdateStation,
                               DeleteStation
<1>3. CASE SeedDefaults(e) \/ CheckDuplicate(e)
  <2>1. edit[e].pc \in {"seeding", "seeded"} /\ told' = told /\ \E pc : Step(e, pc)
    BY <1>3 DEF SeedDefaults, CheckDuplicate, effects
  <2> QED
    BY <2>1, QuietCommit
<1>4. ASSUME NEW s \in StationIds, NEW active \in BOOLEAN, InsertStation(e, s, active)
      PROVE  TellsStep
  BY <1>4, TellsRespond DEF InsertStation, effects
<1>5. CASE ReadStations(e) \/ WriteStation(e) \/ RemoveStation(e)
  BY <1>5, TellsRespond DEF ReadStations, WriteStation, RemoveStation, effects
<1> QED
  BY <1>2, <1>3, <1>4, <1>5 DEF StationCommit

LEMMA NextTells ==
    ASSUME Watched, IInv, TellsOK, ToldOK, Availabilities \subseteq had, Next
    PROVE  TellsStep
<1>1. ASSUME NEW e \in Edits, MenuBegin(e) \/ MenuCommit(e) \/ MenuAfter(e)
                              \/ StationBegin(e) \/ StationCommit(e)
                              \/ MenuFailure(e) \/ AbortEdit(e)
      PROVE  TellsStep
  BY <1>1, MenuBeginTells, MenuCommitTells, MenuAfterTells, StationTells
<1>2. ASSUME NEW g \in Checkouts, Checkout(g) \/ AbortCheckout(g)
      PROVE  UNCHANGED <<edit, told>>
  BY <1>2 DEF Checkout, CheckoutItem, ReorderLoad, ReorderItem, TakeItem, CheckoutStation,
              CheckoutGroups, CheckoutOptions, Quote, CheckoutCommit, CheckoutDispatch,
              AbortCheckout, effects
<1>3. ASSUME Kitchen
      PROVE  UNCHANGED <<edit, told>>
  BY <1>3 DEF Kitchen, ConfirmDispatch, OrderEnds, PollTickets, effects
<1> QED
  BY <1>1, <1>2, <1>3, TellsUnchanged DEF Next, Work, Failure

-----------------------------------------------------------------------------
(* Rows that a checkout refers to *)

\* No group ever changes its item, no line what was ordered or at which price.
RowsStay ==
    /\ \A h \in GroupIds : h \in used => h \in used' /\ group'[h] \in {None, group[h]}
    /\ \A l \in LineIds : line[l] # None =>
          /\ line'[l] # None
          /\ line'[l].item_id = line[l].item_id /\ line'[l].base_price = line[l].base_price
          /\ line'[l].modifiers = line[l].modifiers

LEMMA UntouchedRowsStay ==
    ASSUME UNCHANGED <<group, line>>, used \subseteq used'
    PROVE  RowsStay
BY DEF RowsStay

LEMMA DroppedGroupsStay ==
    ASSUME IInv, NEW groups, group' = Without(group, groups), UNCHANGED <<line, used>>
    PROVE  RowsStay
<1>1. DOMAIN group = GroupIds
  BY DEF IInv, TypeOK, RowsOK
<1> QED
  BY <1>1 DEF RowsStay, Without

LEMMA MenuCommitRows ==
    ASSUME IInv, NEW e \in Edits, MenuCommit(e)
    PROVE  RowsStay
<1>1. CASE InsertCategory(e) \/ WriteCategory(e) \/ InsertItem(e) \/ WriteItem(e)
           \/ InsertOption(e) \/ WriteOption(e) \/ RemoveOption(e)
  BY <1>1, UntouchedRowsStay DEF InsertCategory, WriteCategory, InsertItem, WriteItem,
                                 InsertOption, WriteOption, RemoveOption
<1>2. CASE RemoveCategory(e) \/ RemoveItem(e) \/ RemoveGroup(e)
  BY <1>2, DroppedGroupsStay DEF RemoveCategory, RemoveItem, RemoveGroup, CascadeItems,
                                 CascadeGroups
<1>3. CASE InsertGroup(e)
  <2>1. PICK id, row : /\ id \notin used /\ group' = [group EXCEPT ![id] = row]
                       /\ used' = used \cup {id} /\ line' = line
    BY <1>3 DEF InsertGroup, Fresh
  <2>2. DOMAIN group = GroupIds
    BY DEF IInv, TypeOK, RowsOK
  <2> QED
    BY <2>1, <2>2 DEF RowsStay
<1> QED
  BY <1>1, <1>2, <1>3 DEF MenuCommit

LEMMA StationCommitRows ==
    ASSUME IInv, NEW e \in Edits, StationCommit(e)
    PROVE  RowsStay
<1>1. CASE SeedDefaults(e)
  BY <1>1, UntouchedRowsStay DEF SeedDefaults
<1>2. CASE ReadStations(e) \/ CheckDuplicate(e) \/ WriteStation(e)
  BY <1>2, UntouchedRowsStay DEF ReadStations, CheckDuplicate, WriteStation, rows
<1>3. ASSUME NEW s \in StationIds, NEW active \in BOOLEAN, InsertStation(e, s, active)
      PROVE  RowsStay
  BY <1>3, UntouchedRowsStay DEF InsertStation
<1>4. CASE RemoveStation(e)
  <2>1. PICK s : line' = Unassigned(line, s) /\ UNCHANGED <<group, used>>
    BY <1>4 DEF RemoveStation
  <2>2. ASSUME NEW l \in LineIds, line[l] # None
        PROVE  /\ line'[l] # None
               /\ line'[l].item_id = line[l].item_id
               /\ line'[l].base_price = line[l].base_price
               /\ line'[l].modifiers = line[l].modifiers
    <3>1. DOMAIN line = LineIds /\ line[l] \in LineRow
      BY <2>2 DEF IInv, TypeOK, RowsOK
    <3>2. PICK row \in LineRow : row = line[l]
      BY <3>1
    <3>3. PICK new : new = [row EXCEPT !.station_id = IF row.station_id = s THEN None
                                                      ELSE row.station_id]
      OBVIOUS
    <3>4. /\ new \in LineRow /\ new.item_id = row.item_id /\ new.base_price = row.base_price
          /\ new.modifiers = row.modifiers
      BY <3>3 DEF LineRow
    <3>5. line'[l] = new
      BY <2>1, <2>2, <3>1, <3>2, <3>3 DEF Unassigned
    <3> QED
      BY <3>2, <3>4, <3>5, IdsAssumption
  <2> QED
    BY <2>1, <2>2 DEF RowsStay
<1> QED
  BY <1>1, <1>2, <1>3, <1>4 DEF StationCommit

LEMMA CheckoutRows ==
    ASSUME IInv, NEW g \in Checkouts, Checkout(g)
    PROVE  RowsStay
<1>1. ASSUME UNCHANGED <<rows, used>>
      PROVE  RowsStay
  BY <1>1, UntouchedRowsStay DEF rows
<1>2. ASSUME NEW l \in LineIds, CheckoutCommit(g, l)
      PROVE  RowsStay
  <2>1. PICK row : /\ l \notin used /\ line' = [line EXCEPT ![l] = row]
                   /\ used' = used \cup {l} /\ group' = group
    BY <1>2 DEF CheckoutCommit, Fresh
  <2>2. \A m \in LineIds : line[m] # None => m \in used
    BY DEF IInv, TypeOK, RowsOK
  <2>3. DOMAIN line = LineIds
    BY DEF IInv, TypeOK, RowsOK
  <2> QED
    BY <2>1, <2>2, <2>3 DEF RowsStay
<1>3. CASE \/ \E b \in ActiveBranches, i \in ItemIds : CheckoutItem(g, b, i)
           \/ \E b \in ActiveBranches, l \in LineIds : ReorderLoad(g, b, l)
           \/ ReorderItem(g) \/ CheckoutStation(g) \/ CheckoutGroups(g)
           \/ CheckoutOptions(g) \/ Quote(g) \/ CheckoutDispatch(g)
  BY <1>1, <1>3 DEF CheckoutItem, ReorderLoad, ReorderItem, TakeItem, CheckoutStation,
                    CheckoutGroups, CheckoutOptions, Quote, CheckoutDispatch
<1> QED
  BY <1>2, <1>3 DEF Checkout

LEMMA KitchenRows ==
    ASSUME IInv, Kitchen
    PROVE  RowsStay
<1>1. ASSUME NEW l \in LineIds, OrderEnds(l)
      PROVE  RowsStay
  <2>1. PICK row \in LineRow : row = line[l]
    BY <1>1 DEF OrderEnds, IInv, TypeOK, RowsOK
  <2>2. PICK new : new = [row EXCEPT !.open = FALSE]
    OBVIOUS
  <2>3. /\ new \in LineRow /\ new.item_id = row.item_id /\ new.base_price = row.base_price
        /\ new.modifiers = row.modifiers
    BY <2>2 DEF LineRow
  <2>4. line' = [line EXCEPT ![l] = new] /\ UNCHANGED <<group, used>>
    BY <1>1, <2>1, <2>2 DEF OrderEnds
  <2>5. DOMAIN line = LineIds
    BY DEF IInv, TypeOK, RowsOK
  <2> QED
    BY <2>1, <2>3, <2>4, <2>5, IdsAssumption DEF RowsStay
<1>2. ASSUME UNCHANGED <<rows, used>>
      PROVE  RowsStay
  BY <1>2, UntouchedRowsStay DEF rows
<1> QED
  BY <1>1, <1>2 DEF Kitchen, ConfirmDispatch, PollTickets

\* A request that passes its checks has written nothing.
LEMMA BeginsWriteNothing ==
    ASSUME NEW e \in Edits, MenuBegin(e) \/ StationBegin(e)
    PROVE  UNCHANGED <<rows, used, cart>>
<1>1. ASSUME NEW op, NEW b, NEW id, NEW patch, NEW tell, Load(e, op, b, id, patch, tell)
      PROVE  UNCHANGED <<rows, used, cart>>
  BY <1>1 DEF Load
<1>2. ASSUME NEW b, NEW c \in CategoryIds,
             \/ CreateCategory(e, b, c) \/ UpdateCategory(e, b, c)
             \/ \E soft \in BOOLEAN : DeleteCategory(e, b, c, soft)
      PROVE  UNCHANGED <<rows, used, cart>>
  BY <1>1, <1>2 DEF CreateCategory, UpdateCategory, DeleteCategory
<1>3. ASSUME NEW b, NEW i \in ItemIds,
             \/ CreateItem(e, b, i) \/ UpdateItem(e, b, i)
             \/ \E f \in BOOLEAN : SetItemAvailability(e, b, i, f) \/ DeleteItem(e, b, i, f)
             \/ \E g \in GroupIds : CreateModifierGroup(e, b, i, g)
      PROVE  UNCHANGED <<rows, used, cart>>
  BY <1>1, <1>3 DEF CreateItem, UpdateItem, SetItemAvailability, DeleteItem,
                    CreateModifierGroup
<1>4. ASSUME NEW b, NEW g \in GroupIds,
             \/ DeleteModifierGroup(e, b, g)
             \/ \E o \in OptionIds : CreateModifierOption(e, b, g, o)
      PROVE  UNCHANGED <<rows, used, cart>>
  BY <1>1, <1>4 DEF DeleteModifierGroup, CreateModifierOption
<1>5. ASSUME NEW b, NEW o \in OptionIds,
             \/ UpdateModifierOption(e, b, o) \/ DeleteModifierOption(e, b, o)
             \/ \E f \in BOOLEAN : SetOptionAvailability(e, b, o, f)
      PROVE  UNCHANGED <<rows, used, cart>>
  BY <1>1, <1>5 DEF UpdateModifierOption, DeleteModifierOption, SetOptionAvailability
<1>6. CASE MenuBegin(e)
  BY <1>2, <1>3, <1>4, <1>5, <1>6 DEF MenuBegin
<1>7. CASE StationBegin(e)
  BY <1>1, <1>7 DEF StationBegin, ListStations, CreateStation, LookForDefaults,
                    UpdateStation, DeleteStation
<1> QED
  BY <1>6, <1>7

LEMMA NextRows ==
    ASSUME IInv, Next
    PROVE  RowsStay
<1>1. ASSUME UNCHANGED <<rows, used>>
      PROVE  RowsStay
  BY <1>1, UntouchedRowsStay DEF rows
<1>2. ASSUME NEW e \in Edits, MenuAfter(e) \/ MenuFailure(e) \/ AbortEdit(e)
      PROVE  UNCHANGED <<rows, used>>
  BY <1>2 DEF MenuAfter, MenuFailure, Refresh, Broadcast, AuditLog, BroadcastFails, AuditFails,
              AbortEdit
<1>3. ASSUME NEW g \in Checkouts, AbortCheckout(g)
      PROVE  UNCHANGED <<rows, used>>
  BY <1>3 DEF AbortCheckout
<1> QED
  BY <1>1, <1>2, <1>3, BeginsWriteNothing, MenuCommitRows, StationCommitRows, CheckoutRows, KitchenRows
     DEF Next, Work, Failure

-----------------------------------------------------------------------------
(* What the checkouts hold *)

Paid(x, menu, sold) ==
    x.line # None => /\ line[x.line].item_id \in menu
                     /\ <<line[x.line].item_id, line[x.line].base_price>> \in sold
                     /\ line[x.line].modifiers \subseteq sold

Holds(x, menu, sold) == SeenOnSale(x, menu, sold) /\ Paid(x, menu, sold)

HoldsOK ==
    /\ DOMAIN listed = Checkouts /\ DOMAIN seen = Checkouts
    /\ \A g \in Checkouts : Holds(cart[g], listed[g], seen[g])

LEMMA PartsOfHolds ==
    /\ (\A g \in Checkouts : Paid(cart[g], listed[g], seen[g])) <=> OfferedLines
    /\ (\A g \in Checkouts : Paid(cart[g], listed[g], seen[g]))' <=> OfferedLines'
BY DEF Paid, OfferedLines

LEMMA OnSaleStays ==
    ASSUME UNCHANGED rows
    PROVE  \A b : OnSale(b)' = OnSale(b) /\ MenuOf(b)' = MenuOf(b)
BY DEF rows, OnSale, MenuOf, OnMenu, ItemIn, CategoryIn, OptionIn, GroupIn

\* A checkout forgets what it saw only when it ends, and sees what is there till it commits.
LEMMA SeenGrows ==
    ASSUME Watched, NEW g \in Checkouts, cart'[g].pc # "done"
    PROVE  /\ listed[g] \subseteq listed'[g] /\ seen[g] \subseteq seen'[g]
           /\ cart'[g].pc # "committed" => (cart'[g].branch \in Branches =>
                 /\ MenuOf(cart[g].branch)' \subseteq listed'[g]
                 /\ OnSale(cart[g].branch)' \subseteq seen'[g])
<1>1. /\ listed'[g] = Remembers(cart[g]', listed[g], Lists(cart[g])')
      /\ seen'[g] = Remembers(cart[g]', seen[g], Offers(cart[g])')
  BY DEF Watched
<1>2. CASE cart'[g].pc = "committed"
  BY <1>1, <1>2 DEF Remembers
<1>3. CASE cart'[g].pc # "committed"
  <2>1. /\ listed'[g] = listed[g] \cup Lists(cart[g])'
        /\ seen'[g] = seen[g] \cup Offers(cart[g])'
    BY <1>1, <1>3 DEF Remembers
  <2>2. cart'[g].branch \in Branches => MenuOf(cart[g].branch)' \subseteq Lists(cart[g])'
    BY DEF Lists
  <2>3. cart'[g].branch \in Branches => OnSale(cart[g].branch)' \subseteq Offers(cart[g])'
    BY DEF Offers
  <2> QED
    BY <2>1, <2>2, <2>3
<1> QED
  BY <1>2, <1>3

\* What a checkout holds does not change while others commit.
LEMMA HoldsStay ==
    ASSUME RowsStay, NEW x \in CartRecord, CartOK(x), NEW menu, NEW sold, Holds(x, menu, sold),
           NEW larger, NEW more,
           (menu \subseteq larger /\ sold \subseteq more) \/ x.pc = "done"
    PROVE  Holds(x, larger, more)'
<1>1. x.pc = "groups" => KnownGroups(x)'
  <2> SUFFICES ASSUME x.pc = "groups", NEW h \in {entry[1] : entry \in x.groups}
               PROVE  h \in used' /\ (group'[h] # None => group'[h].item_id = x.item)
    BY DEF KnownGroups
  <2>1. h \in GroupIds
    BY DEF CartRecord
  <2>2. h \in used /\ (group[h] # None => group[h].item_id = x.item)
    BY DEF Holds, SeenOnSale, KnownGroups
  <2> QED
    BY <2>1, <2>2 DEF RowsStay
<1>2. SeenOnSale(x, larger, more)'
  BY <1>1 DEF Holds, SeenOnSale
<1>3. ASSUME x.line # None
      PROVE  Paid(x, larger, more)'
  <2>1. x.pc = "committed"
    BY <1>3 DEF Holds, SeenOnSale
  <2>2. x.line \in LineIds /\ line[x.line] # None
    BY <2>1 DEF CartOK
  <2> QED
    BY <1>3, <2>1, <2>2 DEF Holds, Paid, RowsStay
<1>4. Paid(x, larger, more)'
  BY <1>3 DEF Paid
<1> QED
  BY <1>2, <1>4 DEF Holds

LEMMA HoldsUnmoved ==
    ASSUME Watched, IInv, RowsStay, HoldsOK, NEW g \in Checkouts, cart'[g] = cart[g]
    PROVE  Holds(cart[g], listed[g], seen[g])'
<1>1. PICK x \in CartRecord : x = cart[g] /\ CartOK(x)
  BY CartFacts
<1>2. PICK menu, sold : menu = listed[g] /\ sold = seen[g]
  OBVIOUS
<1>3. PICK larger, more : larger = listed'[g] /\ more = seen'[g]
  OBVIOUS
<1>4. Holds(x, menu, sold)
  BY <1>1, <1>2 DEF HoldsOK
<1>5. (menu \subseteq larger /\ sold \subseteq more) \/ x.pc = "done"
  BY <1>1, <1>2, <1>3, SeenGrows
<1>6. Holds(x, larger, more)'
  BY <1>1, <1>4, <1>5, HoldsStay
<1> QED
  BY <1>1, <1>3, <1>6

\* One checkout goes on to x.
LEMMA HoldsMove ==
    ASSUME Watched, IInv, RowsStay, HoldsOK, NEW g \in Checkouts, NEW x,
           cart' = [cart EXCEPT ![g] = x], NEW menu, NEW sold,
           menu = listed'[g], sold = seen'[g], Holds(x, menu, sold)'
    PROVE  HoldsOK'
<1>1. DOMAIN cart = Checkouts
  BY DEF IInv, TypeOK
<1>2. ASSUME NEW f \in Checkouts
      PROVE  Holds(cart[f], listed[f], seen[f])'
  <2>1. CASE f = g
    BY <1>1, <2>1
  <2>2. CASE f # g
    BY <1>1, <2>2, HoldsUnmoved
  <2> QED
    BY <2>1, <2>2
<1>3. DOMAIN listed' = Checkouts /\ DOMAIN seen' = Checkouts
  BY DEF Watched
<1> QED
  BY <1>2, <1>3 DEF HoldsOK

LEMMA HoldsUnchanged ==
    ASSUME Watched, IInv, RowsStay, HoldsOK, cart' = cart
    PROVE  HoldsOK'
<1>1. DOMAIN listed' = Checkouts /\ DOMAIN seen' = Checkouts
  BY DEF Watched
<1> QED
  BY <1>1, HoldsUnmoved DEF HoldsOK

\* A checkout that answers holds nothing.
LEMMA HoldsAnswer ==
    ASSUME Watched, IInv, RowsStay, HoldsOK, NEW g \in Checkouts, Answer(g)
    PROVE  HoldsOK'
<1>1. PICK x : x = [NoCart EXCEPT !.pc = "done"]
  OBVIOUS
<1>2. x.pc = "done" /\ x.line = None
  BY <1>1 DEF NoCart
<1>3. PICK menu, sold : menu = listed'[g] /\ sold = seen'[g]
  OBVIOUS
<1>4. Holds(x, menu, sold)'
  BY <1>2 DEF Holds, SeenOnSale, Paid
<1> QED
  BY <1>1, <1>3, <1>4, HoldsMove DEF Answer

\* The item that is found is on the menu now, and was on sale as the row says.
LEMMA TakeItemHolds ==
    ASSUME Watched, IInv, RowsStay, HoldsOK, NEW g \in Checkouts, NEW b \in Branches,
           NEW i \in ItemIds, NEW row, TakeItem(g, b, i, row),
           <<i, row.base_price>> \in OnSale(b) \cup seen[g]
    PROVE  HoldsOK'
<1>1. PICK chosen \in Selections :
         cart' = [cart EXCEPT ![g] = [NoCart EXCEPT !.pc = "item", !.branch = b, !.item = i,
                                                    !.row = row, !.chosen = chosen]]
  BY DEF TakeItem
<1>2. PICK x : x = [NoCart EXCEPT !.pc = "item", !.branch = b, !.item = i, !.row = row,
                                  !.chosen = chosen]
  OBVIOUS
<1>3. x.pc = "item" /\ x.branch = b /\ x.item = i /\ x.row = row /\ x.line = None
  BY <1>2 DEF NoCart
<1>4. cart' = [cart EXCEPT ![g] = x] /\ cart'[g] = x
  BY <1>1, <1>2 DEF IInv, TypeOK
<1>5. i \in MenuOf(b) /\ MenuOf(b)' = MenuOf(b) /\ OnSale(b)' = OnSale(b)
  BY OnSaleStays DEF TakeItem, MenuOf
<1>6. PICK menu, sold : menu = listed'[g] /\ sold = seen'[g]
  OBVIOUS
<1>7. MenuOf(b)' \subseteq menu /\ OnSale(b)' \subseteq sold /\ seen[g] \subseteq sold
  BY <1>3, <1>4, <1>6, SeenGrows
<1>8. Holds(x, menu, sold)'
  BY <1>3, <1>5, <1>7 DEF Holds, SeenOnSale, Paid
<1> QED
  BY <1>4, <1>6, <1>8, HoldsMove

LEMMA CheckoutItemHolds ==
    ASSUME Watched, IInv, RowsStay, HoldsOK, NEW g \in Checkouts, NEW b \in ActiveBranches,
           NEW i \in ItemIds, CheckoutItem(g, b, i)
    PROVE  HoldsOK'
<1>1. PICK row : row = item[i]
  OBVIOUS
<1>2. b \in Branches /\ TakeItem(g, b, i, row)
  BY <1>1, AccessAssumption DEF CheckoutItem
<1>3. <<i, row.base_price>> \in OnSale(b)
  BY <1>1, <1>2 DEF TakeItem, OnMenu, OnSale
<1> QED
  BY <1>2, <1>3, TakeItemHolds

\* An item that was available when its row was loaded was on sale then.
LEMMA ReorderLoadHolds ==
    ASSUME Watched, IInv, RowsStay, HoldsOK, NEW g \in Checkouts, NEW b \in ActiveBranches,
           NEW l \in LineIds, ReorderLoad(g, b, l)
    PROVE  HoldsOK'
<1>1. PICK i, row : /\ i \in ItemIds /\ i = line[l].item_id
                   /\ row = item[i] /\ ItemIn(i, b)
  BY DEF IInv, TypeOK, RowsOK, LineRow, OwnBranch, ReorderLoad
<1>2. PICK x : x = [NoCart EXCEPT !.pc = "loaded", !.branch = b, !.item = i, !.row = row]
  OBVIOUS
<1>3. x.pc = "loaded" /\ x.branch = b /\ x.item = i /\ x.row = row /\ x.line = None
  BY <1>2 DEF NoCart
<1>4. cart' = [cart EXCEPT ![g] = x] /\ cart'[g] = x
  BY <1>1, <1>2 DEF IInv, TypeOK, ReorderLoad
<1>5. row.is_available => <<i, row.base_price>> \in OnSale(b)
  BY <1>1 DEF OnSale
<1>6. PICK menu, sold : menu = listed'[g] /\ sold = seen'[g]
  OBVIOUS
<1>7. OnSale(b)' = OnSale(b) /\ OnSale(b)' \subseteq sold
  BY <1>3, <1>4, <1>6, AccessAssumption, OnSaleStays, SeenGrows DEF ReorderLoad
<1>8. Holds(x, menu, sold)'
  BY <1>3, <1>5, <1>7 DEF Holds, SeenOnSale, Paid
<1> QED
  BY <1>4, <1>6, <1>8, HoldsMove

\* The row is as old as the request; the menu is that of now.
LEMMA ReorderItemHolds ==
    ASSUME Watched, IInv, RowsStay, HoldsOK, NEW g \in Checkouts, ReorderItem(g)
    PROVE  HoldsOK'
<1>1. PICK c \in CartRecord : c = cart[g] /\ CartOK(c) /\ c.pc = "loaded"
  BY CartFacts DEF ReorderItem
<1>2. PICK b, i, row : /\ b \in Branches /\ b = c.branch
                      /\ i \in ItemIds /\ i = c.item
                      /\ row = c.row
  BY <1>1 DEF CartOK
<1>3. TakeItem(g, b, i, row)
  BY <1>1, <1>2 DEF ReorderItem
<1>4. PICK menu, sold : menu = listed[g] /\ sold = seen[g] /\ Holds(c, menu, sold)
  BY <1>1 DEF HoldsOK
<1>5. <<i, row.base_price>> \in seen[g]
  BY <1>1, <1>2, <1>3, <1>4 DEF TakeItem, Holds, SeenOnSale
<1> QED
  BY <1>2, <1>3, <1>5, TakeItemHolds

\* Routing the item changes nothing of what it costs.
LEMMA CheckoutStationHolds ==
    ASSUME Watched, IInv, RowsStay, HoldsOK, NEW g \in Checkouts, CheckoutStation(g)
    PROVE  HoldsOK'
<1>1. PICK c \in CartRecord : c = cart[g] /\ c.pc = "item"
  BY CartFacts DEF CheckoutStation
<1>2. PICK code, s : cart' = [cart EXCEPT ![g].pc = "routed", ![g].code = code,
                                          ![g].station_id = s]
  BY DEF CheckoutStation
<1>3. PICK x : x = [c EXCEPT !.pc = "routed", !.code = code, !.station_id = s]
  OBVIOUS
<1>4. x.pc = "routed" /\ x.item = c.item /\ x.row = c.row /\ x.line = c.line
  BY <1>3 DEF CartRecord
<1>5. cart' = [cart EXCEPT ![g] = x] /\ cart'[g] = x
  BY <1>1, <1>2, <1>3 DEF IInv, TypeOK
<1>6. PICK menu, sold : menu = listed'[g] /\ sold = seen'[g]
  OBVIOUS
<1>7. Holds(c, listed[g], seen[g]) /\ listed[g] \subseteq menu /\ seen[g] \subseteq sold
  BY <1>1, <1>4, <1>5, <1>6, SeenGrows DEF HoldsOK
<1>8. Holds(x, menu, sold)'
  BY <1>1, <1>4, <1>6, <1>7 DEF Holds, SeenOnSale, Paid
<1> QED
  BY <1>5, <1>6, <1>8, HoldsMove

LEMMA CheckoutGroupsHolds ==
    ASSUME Watched, IInv, RowsStay, HoldsOK, NEW g \in Checkouts, CheckoutGroups(g)
    PROVE  HoldsOK'
<1>1. PICK c \in CartRecord : c = cart[g] /\ c.pc = "routed"
  BY CartFacts DEF CheckoutGroups
<1>2. PICK groups : groups = {<<h, group[h]>> : h \in GroupsOf({c.item})}
  OBVIOUS
<1>3. PICK x : x = [c EXCEPT !.pc = "groups", !.groups = groups]
  OBVIOUS
<1>4. /\ x.pc = "groups" /\ x.item = c.item /\ x.row = c.row /\ x.line = c.line
      /\ x.groups = groups
  BY <1>3 DEF CartRecord
<1>5. cart' = [cart EXCEPT ![g] = x] /\ cart'[g] = x
  BY <1>1, <1>2, <1>3 DEF IInv, TypeOK, CheckoutGroups
<1>6. PICK menu, sold : menu = listed'[g] /\ sold = seen'[g]
  OBVIOUS
<1>7. Holds(c, listed[g], seen[g]) /\ listed[g] \subseteq menu /\ seen[g] \subseteq sold
  BY <1>1, <1>4, <1>5, <1>6, SeenGrows DEF HoldsOK
<1>8. KnownGroups(x)'
  <2> SUFFICES ASSUME NEW h \in {entry[1] : entry \in groups}
               PROVE  h \in used' /\ (group'[h] # None => group'[h].item_id = c.item)
    BY <1>4 DEF KnownGroups
  <2>1. h \in GroupIds /\ group[h] # None /\ group[h].item_id = c.item
    BY <1>2 DEF GroupsOf
  <2>2. h \in used /\ UNCHANGED <<group, used>>
    BY <2>1 DEF IInv, TypeOK, RowsOK, CheckoutGroups, rows
  <2> QED
    BY <2>1, <2>2
<1>9. Holds(x, menu, sold)'
  BY <1>1, <1>4, <1>6, <1>7, <1>8 DEF Holds, SeenOnSale, Paid
<1> QED
  BY <1>5, <1>6, <1>9, HoldsMove

\* What ValidSelection lets through is on sale in the branch of the checkout.
LEMMA ChosenAreOnSale ==
    ASSUME IInv, NEW c \in CartRecord, CartOK(c), c.pc = "groups", KnownGroups(c),
           ValidSelection(c.chosen, c.groups, OptionsOf({x[1] : x \in c.groups})),
           NEW o \in UNION {c.chosen[h] : h \in DOMAIN c.chosen}
    PROVE  <<o, option[o].price_delta>> \in OnSale(c.branch)
<1>1. PICK h \in DOMAIN c.chosen : o \in c.chosen[h]
  OBVIOUS
<1>2. PICK entry \in c.groups : entry[1] = h
  BY <1>1 DEF ValidSelection
<1>3. o \in ChosenOf(c.chosen, entry[1])
  BY <1>1, <1>2 DEF ChosenOf
<1>4. /\ o \in OptionsOf({k[1] : k \in c.groups})
      /\ option[o].group_id = h /\ option[o].is_available
  BY <1>2, <1>3 DEF ValidSelection
<1>5. o \in OptionIds /\ option[o] # None
  BY <1>4 DEF OptionsOf
<1>6. group[h] # None /\ group[h].item_id = c.item
  <2>1. group[h] # None
    BY <1>4, <1>5 DEF IInv, ReferencesHold
  <2>2. h \in {k[1] : k \in c.groups}
    BY <1>2
  <2> QED
    BY <2>1, <2>2 DEF KnownGroups
<1>7. ItemIn(c.item, c.branch)
  <2>1. h \in GroupIds
    BY <1>2 DEF CartRecord
  <2>2. item[c.item] # None
    BY <1>6, <2>1 DEF IInv, ReferencesHold
  <2> QED
    BY <2>2 DEF CartOK, ItemHere
<1> QED
  BY <1>4, <1>5, <1>6, <1>7 DEF OnSale, OptionIn, GroupIn

LEMMA CheckoutOptionsHolds ==
    ASSUME Watched, IInv, RowsStay, HoldsOK, NEW g \in Checkouts, CheckoutOptions(g)
    PROVE  HoldsOK'
<1>1. PICK c \in CartRecord : c = cart[g] /\ CartOK(c) /\ c.pc = "groups"
  BY CartFacts DEF CheckoutOptions
<1>2. PICK chosen : chosen = UNION {c.chosen[h] : h \in DOMAIN c.chosen}
  OBVIOUS
<1>3. PICK modifiers : modifiers = {<<o, option[o].price_delta>> : o \in chosen}
  OBVIOUS
<1>4. PICK x : x = [c EXCEPT !.pc = "priced", !.modifiers = modifiers]
  OBVIOUS
<1>5. /\ x.pc = "priced" /\ x.item = c.item /\ x.row = c.row /\ x.line = c.line
      /\ x.branch = c.branch /\ x.modifiers = modifiers
  BY <1>4 DEF CartRecord
<1>6. cart' = [cart EXCEPT ![g] = x] /\ cart'[g] = x
  BY <1>1, <1>2, <1>3, <1>4 DEF IInv, TypeOK, CheckoutOptions
<1>7. PICK menu, sold : menu = listed'[g] /\ sold = seen'[g]
  OBVIOUS
<1>8. Holds(c, listed[g], seen[g]) /\ listed[g] \subseteq menu /\ seen[g] \subseteq sold
  BY <1>1, <1>5, <1>6, <1>7, SeenGrows DEF HoldsOK
<1>9. modifiers \subseteq OnSale(c.branch)
  <2>1. ValidSelection(c.chosen, c.groups, OptionsOf({y[1] : y \in c.groups}))
    BY <1>1 DEF CheckoutOptions
  <2>2. KnownGroups(c)
    BY <1>1, <1>8 DEF Holds, SeenOnSale
  <2> QED
    BY <1>1, <1>2, <1>3, <2>1, <2>2, ChosenAreOnSale
<1>10. OnSale(c.branch) \subseteq seen'[g]
  <2>1. PICK b \in Branches : b = c.branch
    BY <1>1 DEF CartOK
  <2>2. OnSale(b)' = OnSale(b)
    BY OnSaleStays DEF CheckoutOptions
  <2>3. OnSale(b)' \subseteq seen'[g]
    BY <1>5, <1>6, <2>1, SeenGrows
  <2> QED
    BY <2>1, <2>2, <2>3
<1>11. Holds(x, menu, sold)'
  BY <1>1, <1>5, <1>7, <1>8, <1>9, <1>10 DEF Holds, SeenOnSale, Paid
<1> QED
  BY <1>6, <1>7, <1>11, HoldsMove

LEMMA CheckoutCommitHolds ==
    ASSUME Watched, IInv, RowsStay, HoldsOK, NEW g \in Checkouts, NEW l \in LineIds,
           CheckoutCommit(g, l)
    PROVE  HoldsOK'
<1>1. PICK c \in CartRecord : c = cart[g] /\ c.pc = "priced"
  BY CartFacts DEF CheckoutCommit
<1>2. PICK x : x = [NoCart EXCEPT !.pc = "committed", !.line = l]
  OBVIOUS
<1>3. x.pc = "committed" /\ x.line = l
  BY <1>2 DEF NoCart
<1>4. cart' = [cart EXCEPT ![g] = x] /\ cart'[g] = x
  BY <1>2 DEF IInv, TypeOK, CheckoutCommit
<1>5. /\ line'[l].item_id = c.item /\ line'[l].base_price = c.row.base_price
      /\ line'[l].modifiers = c.modifiers
  BY <1>1 DEF IInv, TypeOK, RowsOK, CheckoutCommit
<1>6. PICK menu, sold : menu = listed'[g] /\ sold = seen'[g]
  OBVIOUS
<1>7. Holds(c, listed[g], seen[g]) /\ listed[g] \subseteq menu /\ seen[g] \subseteq sold
  BY <1>1, <1>3, <1>4, <1>6, SeenGrows DEF HoldsOK
<1>8. Holds(x, menu, sold)'
  BY <1>1, <1>3, <1>5, <1>6, <1>7 DEF Holds, SeenOnSale, Paid
<1> QED
  BY <1>4, <1>6, <1>8, HoldsMove

LEMMA NextHolds ==
    ASSUME Watched, IInv, HoldsOK, Next
    PROVE  HoldsOK'
<1>1. RowsStay
  BY NextRows
<1>2. ASSUME NEW e \in Edits, MenuBegin(e) \/ StationBegin(e)
      PROVE  cart' = cart
  BY <1>2, BeginsWriteNothing
<1>3. ASSUME NEW e \in Edits, MenuCommit(e)
      PROVE  cart' = cart
  BY <1>3 DEF MenuCommit, InsertCategory, WriteCategory, RemoveCategory, InsertItem, WriteItem,
              RemoveItem, InsertGroup, RemoveGroup, InsertOption, WriteOption, RemoveOption
<1>4. ASSUME NEW e \in Edits,
             StationCommit(e) \/ MenuAfter(e) \/ MenuFailure(e) \/ AbortEdit(e)
      PROVE  cart' = cart
  BY <1>4 DEF StationCommit, SeedDefaults, ReadStations, CheckDuplicate, InsertStation,
              WriteStation, RemoveStation, MenuAfter, MenuFailure, Refresh, Broadcast,
              AuditLog, BroadcastFails, AuditFails, AbortEdit
<1>5. ASSUME Kitchen
      PROVE  cart' = cart
  BY <1>5 DEF Kitchen, ConfirmDispatch, OrderEnds, PollTickets
<1>6. ASSUME NEW g \in Checkouts, Checkout(g) \/ AbortCheckout(g)
      PROVE  HoldsOK'
  <2>1. ASSUME Quote(g) \/ CheckoutDispatch(g) \/ AbortCheckout(g)
        PROVE  HoldsOK'
    BY <1>1, <2>1, HoldsAnswer DEF Quote, CheckoutDispatch, AbortCheckout
  <2> QED
    BY <1>1, <1>6, <2>1, CheckoutItemHolds, ReorderLoadHolds, ReorderItemHolds,
       CheckoutStationHolds, CheckoutGroupsHolds, CheckoutOptionsHolds, CheckoutCommitHolds
       DEF Checkout
<1> QED
  BY <1>1, <1>2, <1>3, <1>4, <1>5, <1>6, HoldsUnchanged DEF Next, Work, Failure

-----------------------------------------------------------------------------
(* The invariant *)

LEMMA PartsOfHInv ==
    /\ HInv <=> IInv /\ Availabilities \subseteq had /\ TellsOK /\ ToldOK /\ HoldsOK
    /\ HInv' <=> IInv' /\ Availabilities' \subseteq had' /\ TellsOK' /\ ToldOK' /\ HoldsOK'
BY PartsOfHolds DEF HInv, TellsOK, ToldOK, HoldsOK, Holds

LEMMA InitHInv == HistoryInit => HInv
<1> SUFFICES ASSUME HistoryInit PROVE HInv
  OBVIOUS
<1>1. IInv
  BY InitIInv DEF HistoryInit
<1>2. TellsOK
  <2>1. TellsStored(NoEdit)
    BY DEF TellsStored, NoEdit
  <2> QED
    BY <2>1 DEF HistoryInit, Init, TellsOK
<1>3. ToldOK
  BY DEF HistoryInit, Init, ToldOK, BroadcastsWereStored
<1>4. HoldsOK
  <2>1. NoCart.pc = "new" /\ NoCart.line = None
    BY DEF NoCart
  <2>2. Holds(NoCart, {}, {})
    BY <2>1 DEF Holds, SeenOnSale, Paid
  <2> QED
    BY <2>2 DEF HistoryInit, Init, HoldsOK
<1> QED
  BY <1>1, <1>2, <1>3, <1>4, PartsOfHInv DEF HistoryInit

LEMMA StepHInv == HInv /\ [Next /\ Watched]_historyVars => HInv'
<1> SUFFICES ASSUME HInv, [Next /\ Watched]_historyVars
             PROVE  HInv'
  OBVIOUS
<1>1. IInv /\ Availabilities \subseteq had /\ TellsOK /\ ToldOK /\ HoldsOK
  BY PartsOfHInv
<1>2. IInv'
  BY <1>1, StepIInv DEF historyVars
<1>3. CASE Next /\ Watched
  BY <1>1, <1>2, <1>3, HadGrows, NextTells, NextHolds, PartsOfHInv DEF TellsStep
<1>4. CASE UNCHANGED historyVars
  <2>1. UNCHANGED <<station, category, item, group, option, line, used, edit, cart, told,
                    listed, seen, had>>
    BY <1>4 DEF historyVars, catalogueVars, rows, effects
  <2>2. Availabilities' = Availabilities
    BY <2>1 DEF Availabilities, Stored, Present
  <2>3. TellsOK' /\ ToldOK'
    BY <1>1, <2>1 DEF TellsOK, TellsStored, ToldOK, BroadcastsWereStored
  <2>4. HoldsOK'
    BY <1>1, <2>1 DEF HoldsOK, Holds, SeenOnSale, KnownGroups, Paid
  <2> QED
    BY <1>1, <1>2, <2>1, <2>2, <2>3, <2>4, PartsOfHInv
<1> QED
  BY <1>3, <1>4

\* HInv holds in every state, for any menu and any number of requests.
THEOREM HistoryInvariant == HistorySpec => []HInv
BY InitHInv, StepHInv, PTL DEF HistorySpec

\* Whatever managers change while a guest checks out, the line is of an item
\* that was on the menu during the checkout, at a price at which it was available in the
\* branch then, with no option that was sold out all along.
THEOREM GuestsPayOffers == HistorySpec => []OfferedLines
<1>1. HInv => OfferedLines
  BY DEF HInv
<1> QED
  BY <1>1, HistoryInvariant, PTL

\* No display hears of an availability that was rolled back, by a broadcast of any edit.
THEOREM BroadcastsAreOfCommits == HistorySpec => []BroadcastsWereStored
<1>1. HInv => BroadcastsWereStored
  BY DEF HInv
<1> QED
  BY <1>1, HistoryInvariant, PTL
===============================================================================
