--------------------------- MODULE Catalogue_proofs ---------------------------
(***************************************************************************)
(* For every menu, every number of requests and every assignment of roles: *)
(* references stay whole and within a branch, the audit log stays true,    *)
(* and no branch is edited by another's staff.                             *)
(***************************************************************************)
EXTENDS Catalogue, TLAPS

RowInv == RowsOK /\ ReferencesHold /\ OwnBranch

\* What every step keeps of what the requests rely on.
Kept ==
    /\ \A b \in Branches :
          /\ \A s \in StationIds : StationHere(s, b) => StationHere(s, b)'
          /\ \A c \in CategoryIds : CategoryHere(c, b) => CategoryHere(c, b)'
          /\ \A i \in ItemIds : ItemHere(i, b) => ItemHere(i, b)'
          /\ \A g \in GroupIds : GroupHere(g, b) => GroupHere(g, b)'
          /\ \A o \in OptionIds : OptionHere(o, b) => OptionHere(o, b)'
    /\ \A op, id : Settled(op, id) => Settled(op, id)'
    /\ \A l \in LineIds : line[l] # None => /\ line'[l] # None
                                            /\ line'[l].station_code = line[l].station_code

-----------------------------------------------------------------------------
(* Steps by what they write *)

\* The endpoints let nobody act on a branch that is not theirs to administer.
LEMMA AdmittedAreAdministered ==
    ASSUME NEW b \in Admitted({"BRANCH_ADMIN", "SUPER_ADMIN"})
    PROVE  Administered(b) /\ b \in Branches
<1>1. PICK u \in ActiveUsers, q \in Branches \cup {None}, h \in Branches \cup {None} :
         RoleOf[u] \in {"BRANCH_ADMIN", "SUPER_ADMIN"} /\ b \in EnforceBranchAccess(u, None, q, h)
  BY DEF Admitted, CurrentUsers
<1> QED
  BY <1>1, AccessAssumption DEF EnforceBranchAccess, CanAccessBranch, Administered

\* A step that writes no table.
LEMMA QuietStep ==
    ASSUME RowInv, UNCHANGED <<rows, used>>
    PROVE  RowInv' /\ Kept /\ OnlyAdministeredChange
<1>1. UNCHANGED <<station, category, item, group, option, line, used>>
  BY DEF rows
<1>2. RowInv'
  BY <1>1 DEF RowInv, RowsOK, ReferencesHold, OwnBranch, StationExists,
              StationIn, CategoryIn, ItemIn
<1>3. Kept
  BY <1>1 DEF Kept, StationHere, CategoryHere, ItemHere, GroupHere, OptionHere, StationIn,
              CategoryIn, ItemIn, GroupIn, OptionIn, Settled, Present
<1> QED
  BY <1>1, <1>2, <1>3 DEF OnlyAdministeredChange

\* An INSERT or UPDATE of one category.
LEMMA PutCategory ==
    ASSUME RowInv, NEW c \in CategoryIds, NEW row \in CategoryRow,
           Administered(row.branch_id),
           row.station_id # None => StationIn(row.station_id, row.branch_id),
           \/ CategoryIn(c, row.branch_id) /\ used' = used
           \/ c \notin used /\ used' = used \cup {c},
           category' = [category EXCEPT ![c] = row],
           UNCHANGED <<station, item, group, option, line>>
    PROVE  RowInv' /\ Kept /\ OnlyAdministeredChange
<1> DEFINE b == row.branch_id
<1>1. /\ b \in Branches
      /\ row.station_id \in StationIds \cup {None}
      /\ row # None
  BY IdsAssumption DEF CategoryRow
<1>2. /\ \A d \in CategoryIds : category'[d] = IF d = c THEN row ELSE category[d]
      /\ used \subseteq used'
      /\ category'[c] # None /\ category'[c].branch_id = b
      /\ category[c] # None => category[c].branch_id = b
  BY <1>1 DEF RowInv, RowsOK, CategoryIn
<1>3. RowsOK'
  BY <1>1, <1>2 DEF RowInv, RowsOK, CategoryIn
<1>4. ReferencesHold'
  BY <1>1, <1>2 DEF RowInv, RowsOK, ReferencesHold, StationExists, StationIn, ItemRow
<1>5. \A d \in CategoryIds, a \in Branches : CategoryIn(d, a) => CategoryIn(d, a)'
  BY <1>1, <1>2 DEF CategoryIn
<1>6. \A i \in ItemIds, a \in Branches : ItemIn(i, a) => ItemIn(i, a)'
  BY <1>5 DEF ItemIn, RowInv, RowsOK, ItemRow
<1>7. OwnBranch'
  <2>1. \A d \in CategoryIds : (category[d] # None /\ category[d].station_id # None
           => StationIn(category[d].station_id, category[d].branch_id))'
    BY <1>1, <1>2 DEF RowInv, OwnBranch, StationIn
  <2>2. \A i \in ItemIds : (item[i] # None /\ item[i].station_id # None
           => StationIn(item[i].station_id, category[item[i].category_id].branch_id))'
    BY <1>1, <1>2 DEF RowInv, RowsOK, ItemRow, OwnBranch, ReferencesHold, StationIn
  <2>3. \A l \in LineIds : (line[l] # None =>
           /\ ItemIn(line[l].item_id, line[l].branch_id)
           /\ line[l].station_id # None => StationIn(line[l].station_id, line[l].branch_id))'
    BY <1>6 DEF RowInv, RowsOK, LineRow, OwnBranch, StationIn
  <2> QED
    BY <2>1, <2>2, <2>3 DEF OwnBranch
<1>8. Kept
  <2>1. \A a \in Branches, d \in CategoryIds : CategoryHere(d, a) => CategoryHere(d, a)'
    BY <1>1, <1>2 DEF CategoryHere, CategoryIn
  <2>2. \A a \in Branches :
           /\ \A s \in StationIds : StationHere(s, a) => StationHere(s, a)'
           /\ \A i \in ItemIds : ItemHere(i, a) => ItemHere(i, a)'
    BY <1>2, <1>6 DEF StationHere, ItemHere, StationIn
  <2>3. \A a \in Branches :
           /\ \A g \in GroupIds : GroupHere(g, a) => GroupHere(g, a)'
           /\ \A o \in OptionIds : OptionHere(o, a) => OptionHere(o, a)'
    BY <1>2, <1>6 DEF GroupHere, OptionHere, GroupIn, OptionIn, RowInv, RowsOK, GroupRow,
                      OptionRow
  <2>4. \A op, id : Settled(op, id) => Settled(op, id)'
    BY <1>1, <1>2 DEF Settled, Present, CategoryIn
  <2> QED
    BY <2>1, <2>2, <2>3, <2>4 DEF Kept
<1>9. OnlyAdministeredChange
  BY <1>1, <1>2 DEF OnlyAdministeredChange, CategoryIn
<1> QED
  BY <1>3, <1>4, <1>7, <1>8, <1>9 DEF RowInv

\* An INSERT or UPDATE of one item.
LEMMA PutItem ==
    ASSUME RowInv, NEW b \in Branches, NEW i \in ItemIds, NEW row \in ItemRow,
           Administered(b), CategoryIn(row.category_id, b),
           row.station_id # None => StationIn(row.station_id, b),
           \/ ItemIn(i, b) /\ used' = used
           \/ i \notin used /\ used' = used \cup {i},
           item' = [item EXCEPT ![i] = row],
           UNCHANGED <<station, category, group, option, line>>
    PROVE  RowInv' /\ Kept /\ OnlyAdministeredChange
<1>1. /\ row.category_id \in CategoryIds
      /\ row.station_id \in StationIds \cup {None}
      /\ row # None
  BY IdsAssumption DEF ItemRow
<1>2. /\ \A j \in ItemIds : item'[j] = IF j = i THEN row ELSE item[j]
      /\ used \subseteq used'
  BY <1>1 DEF RowInv, RowsOK
<1>3. RowsOK'
  BY <1>1, <1>2 DEF RowInv, RowsOK, ItemIn
<1>4. ReferencesHold'
  BY <1>1, <1>2 DEF RowInv, RowsOK, ReferencesHold, StationExists, StationIn, CategoryIn,
                    GroupRow, LineRow
<1>5. /\ ItemIn(i, b)'
      /\ item[i] # None => ItemIn(i, b)
      /\ \A j \in ItemIds, a \in Branches : j # i /\ ItemIn(j, a) => ItemIn(j, a)'
      /\ i \in used => item[i] # None
      /\ \A a \in Branches : item[i] # None /\ ItemIn(i, a) => a = b
  BY <1>1, <1>2 DEF ItemIn, CategoryIn, RowInv, RowsOK
<1>6. \A j \in ItemIds, a \in Branches : ItemIn(j, a) => ItemIn(j, a)'
  BY <1>5 DEF ItemIn
<1>7. OwnBranch'
  <2>1. \A c \in CategoryIds : (category[c] # None /\ category[c].station_id # None
           => StationIn(category[c].station_id, category[c].branch_id))'
    BY DEF RowInv, OwnBranch, StationIn
  <2>2. \A j \in ItemIds : (item[j] # None /\ item[j].station_id # None
           => StationIn(item[j].station_id, category[item[j].category_id].branch_id))'
    BY <1>1, <1>2 DEF RowInv, OwnBranch, StationIn, CategoryIn
  <2>3. \A l \in LineIds : (line[l] # None =>
           /\ ItemIn(line[l].item_id, line[l].branch_id)
           /\ line[l].station_id # None => StationIn(line[l].station_id, line[l].branch_id))'
    BY <1>6 DEF RowInv, RowsOK, LineRow, OwnBranch, StationIn
  <2> QED
    BY <2>1, <2>2, <2>3 DEF OwnBranch
<1>8. Kept
  <2>1. \A a \in Branches, j \in ItemIds : ItemHere(j, a) => ItemHere(j, a)'
    BY <1>2, <1>5, <1>6 DEF ItemHere
  <2>2. \A a \in Branches :
           /\ \A s \in StationIds : StationHere(s, a) => StationHere(s, a)'
           /\ \A c \in CategoryIds : CategoryHere(c, a) => CategoryHere(c, a)'
    BY <1>2 DEF StationHere, CategoryHere, StationIn, CategoryIn
  <2>3. \A a \in Branches :
           /\ \A g \in GroupIds : GroupHere(g, a) => GroupHere(g, a)'
           /\ \A o \in OptionIds : OptionHere(o, a) => OptionHere(o, a)'
    BY <1>2, <1>6 DEF GroupHere, OptionHere, GroupIn, OptionIn, RowInv, RowsOK, GroupRow,
                      OptionRow
  <2>4. \A op, id : Settled(op, id) => Settled(op, id)'
    BY <1>1, <1>2, <1>5 DEF Settled, Present
  <2> QED
    BY <2>1, <2>2, <2>3, <2>4 DEF Kept
<1>9. OnlyAdministeredChange
  BY <1>2, <1>5 DEF OnlyAdministeredChange
<1> QED
  BY <1>3, <1>4, <1>7, <1>8, <1>9 DEF RowInv

\* An INSERT of a modifier group.
LEMMA PutGroup ==
    ASSUME RowInv, NEW b \in Branches, NEW g \in GroupIds, NEW row \in GroupRow,
           Administered(b), ItemIn(row.item_id, b),
           g \notin used, used' = used \cup {g},
           group' = [group EXCEPT ![g] = row],
           UNCHANGED <<station, category, item, option, line>>
    PROVE  RowInv' /\ Kept /\ OnlyAdministeredChange
<1>1. row.item_id \in ItemIds /\ row # None /\ group[g] = None
  BY IdsAssumption DEF GroupRow, RowInv, RowsOK
<1>2. /\ \A h \in GroupIds : group'[h] = IF h = g THEN row ELSE group[h]
      /\ used \subseteq used'
  BY <1>1 DEF RowInv, RowsOK
<1>3. RowsOK'
  BY <1>1, <1>2 DEF RowInv, RowsOK
<1>4. ReferencesHold'
  BY <1>1, <1>2 DEF RowInv, RowsOK, ReferencesHold, StationExists, ItemIn, OptionRow
<1>5. \A j \in ItemIds, a \in Branches : ItemIn(j, a) => ItemIn(j, a)'
  BY DEF ItemIn, CategoryIn
<1>6. OwnBranch'
  BY DEF RowInv, OwnBranch, StationIn, ItemIn, CategoryIn
<1>7. Kept
  <2>1. \A a \in Branches :
           /\ \A s \in StationIds : StationHere(s, a) => StationHere(s, a)'
           /\ \A c \in CategoryIds : CategoryHere(c, a) => CategoryHere(c, a)'
           /\ \A i \in ItemIds : ItemHere(i, a) => ItemHere(i, a)'
    BY <1>2, <1>5 DEF StationHere, CategoryHere, ItemHere, StationIn, CategoryIn
  <2>2. \A a \in Branches :
           /\ \A h \in GroupIds : GroupHere(h, a) => GroupHere(h, a)'
           /\ \A o \in OptionIds : OptionHere(o, a) => OptionHere(o, a)'
    BY <1>1, <1>2, <1>5 DEF GroupHere, OptionHere, GroupIn, OptionIn, RowInv, RowsOK,
                            GroupRow, OptionRow
  <2>3. \A op, id : Settled(op, id) => Settled(op, id)'
    BY <1>1, <1>2 DEF Settled, Present
  <2> QED
    BY <2>1, <2>2, <2>3 DEF Kept
<1>8. GroupIn(g, b)'
  BY <1>1, <1>2, <1>5 DEF GroupIn
<1>9. OnlyAdministeredChange
  BY <1>2, <1>8 DEF OnlyAdministeredChange
<1> QED
  BY <1>3, <1>4, <1>6, <1>7, <1>9 DEF RowInv

\* An INSERT or UPDATE of a modifier option.
LEMMA PutOption ==
    ASSUME RowInv, NEW b \in Branches, NEW o \in OptionIds, NEW row \in OptionRow,
           Administered(b), GroupIn(row.group_id, b),
           \/ OptionIn(o, b) /\ used' = used
           \/ o \notin used /\ used' = used \cup {o},
           option' = [option EXCEPT ![o] = row],
           UNCHANGED <<station, category, item, group, line>>
    PROVE  RowInv' /\ Kept /\ OnlyAdministeredChange
<1>1. row.group_id \in GroupIds /\ row # None
  BY IdsAssumption DEF OptionRow
<1>2. /\ \A p \in OptionIds : option'[p] = IF p = o THEN row ELSE option[p]
      /\ used \subseteq used'
  BY <1>1 DEF RowInv, RowsOK
<1>3. RowsOK'
  BY <1>1, <1>2 DEF RowInv, RowsOK, OptionIn
<1>4. ReferencesHold'
  BY <1>1, <1>2 DEF RowInv, RowsOK, ReferencesHold, StationExists, GroupIn
<1>5. \A j \in ItemIds, a \in Branches : ItemIn(j, a) <=> ItemIn(j, a)'
  BY DEF ItemIn, CategoryIn
<1>6. OwnBranch'
  BY DEF RowInv, OwnBranch, StationIn, ItemIn, CategoryIn
<1>7. \A h \in GroupIds, a \in Branches : GroupIn(h, a) <=> GroupIn(h, a)'
  BY <1>5 DEF GroupIn, RowInv, RowsOK, GroupRow
<1>8. /\ OptionIn(o, b)'
      /\ option[o] # None => OptionIn(o, b)
      /\ o \in used => option[o] # None
      /\ \A p \in OptionIds, a \in Branches : p # o /\ OptionIn(p, a) => OptionIn(p, a)'
  BY <1>1, <1>2, <1>7 DEF OptionIn, RowInv, RowsOK, OptionRow
<1>9. \A a \in Branches : OptionIn(o, a) => a = b
  BY <1>8 DEF OptionIn, GroupIn, ItemIn, CategoryIn
<1>10. Kept
  <2>1. \A a \in Branches :
           /\ \A s \in StationIds : StationHere(s, a) => StationHere(s, a)'
           /\ \A c \in CategoryIds : CategoryHere(c, a) => CategoryHere(c, a)'
           /\ \A i \in ItemIds : ItemHere(i, a) => ItemHere(i, a)'
           /\ \A g \in GroupIds : GroupHere(g, a) => GroupHere(g, a)'
    BY <1>2, <1>5, <1>7 DEF StationHere, CategoryHere, ItemHere, GroupHere, StationIn,
                            CategoryIn
  <2>2. \A a \in Branches, p \in OptionIds : OptionHere(p, a) => OptionHere(p, a)'
    BY <1>2, <1>8, <1>9 DEF OptionHere
  <2>3. \A op, id : Settled(op, id) => Settled(op, id)'
    BY <1>1, <1>2, <1>8 DEF Settled, Present
  <2> QED
    BY <2>1, <2>2, <2>3 DEF Kept
<1>11. OnlyAdministeredChange
  BY <1>2, <1>8 DEF OnlyAdministeredChange
<1> QED
  BY <1>3, <1>4, <1>6, <1>10, <1>11 DEF RowInv

\* An INSERT of stations of one branch.
LEMMA AddStations ==
    ASSUME RowInv, NEW b \in Branches, NEW new \in SUBSET StationIds,
           Administered(b), new \cap used = {}, used' = used \cup new,
           station' \in [StationIds -> StationRow \cup {None}],
           \A s \in StationIds \ new : station'[s] = station[s],
           \A s \in new : station'[s] # None /\ station'[s].branch_id = b,
           UNCHANGED <<category, item, group, option, line>>
    PROVE  RowInv' /\ Kept /\ OnlyAdministeredChange
<1>1. \A s \in new : s \notin used /\ station[s] = None
  BY DEF RowInv, RowsOK
<1>2. \A s \in StationIds : station[s] # None => station'[s] = station[s]
  BY <1>1
<1>3. RowsOK'
  BY DEF RowInv, RowsOK
<1>4. ReferencesHold'
  BY <1>2 DEF RowInv, RowsOK, ReferencesHold, StationExists, CategoryRow, ItemRow, LineRow
<1>5. \A j \in ItemIds, a \in Branches : ItemIn(j, a) <=> ItemIn(j, a)'
  BY DEF ItemIn, CategoryIn
<1>6. \A s \in StationIds, a \in Branches : StationIn(s, a) => StationIn(s, a)'
  BY <1>2 DEF StationIn
<1>7. OwnBranch'
  <2>1. \A c \in CategoryIds : (category[c] # None /\ category[c].station_id # None
           => StationIn(category[c].station_id, category[c].branch_id))'
    BY <1>6 DEF RowInv, RowsOK, OwnBranch, CategoryRow
  <2>2. \A i \in ItemIds : (item[i] # None /\ item[i].station_id # None
           => StationIn(item[i].station_id, category[item[i].category_id].branch_id))'
    BY <1>6 DEF RowInv, RowsOK, OwnBranch, ReferencesHold, CategoryRow, ItemRow
  <2>3. \A l \in LineIds : (line[l] # None =>
           /\ ItemIn(line[l].item_id, line[l].branch_id)
           /\ line[l].station_id # None => StationIn(line[l].station_id, line[l].branch_id))'
    BY <1>5, <1>6 DEF RowInv, RowsOK, LineRow, OwnBranch
  <2> QED
    BY <2>1, <2>2, <2>3 DEF OwnBranch
<1>8. Kept
  <2>1. \A a \in Branches, s \in StationIds : StationHere(s, a) => StationHere(s, a)'
    BY <1>1 DEF StationHere, StationIn
  <2>2. \A a \in Branches :
           /\ \A c \in CategoryIds : CategoryHere(c, a) => CategoryHere(c, a)'
           /\ \A i \in ItemIds : ItemHere(i, a) => ItemHere(i, a)'
           /\ \A g \in GroupIds : GroupHere(g, a) => GroupHere(g, a)'
           /\ \A o \in OptionIds : OptionHere(o, a) => OptionHere(o, a)'
    BY DEF CategoryHere, ItemHere, GroupHere, OptionHere, CategoryIn, ItemIn, GroupIn, OptionIn
  <2>3. \A op, id : Settled(op, id) => Settled(op, id)'
    BY DEF Settled, Present
  <2> QED
    BY <2>1, <2>2, <2>3 DEF Kept
<1>9. OnlyAdministeredChange
  BY DEF OnlyAdministeredChange, StationIn
<1> QED
  BY <1>3, <1>4, <1>7, <1>8, <1>9 DEF RowInv

\* An UPDATE of a station: neither its branch nor its code.
LEMMA PutStation ==
    ASSUME RowInv, NEW b \in Branches, NEW s \in StationIds, NEW active \in BOOLEAN,
           Administered(b), StationIn(s, b),
           station' = [station EXCEPT ![s].is_active = active],
           UNCHANGED <<category, item, group, option, line, used>>
    PROVE  RowInv' /\ Kept /\ OnlyAdministeredChange
<1>1. station[s] \in StationRow
  BY DEF RowInv, RowsOK, StationIn
<1>2. /\ station' \in [StationIds -> StationRow \cup {None}]
      /\ \A t \in StationIds : /\ station'[t] # None <=> station[t] # None
                               /\ t # s => station'[t] = station[t]
                               /\ station'[t].branch_id = station[t].branch_id
                               /\ station'[t].code = station[t].code
  BY <1>1, IdsAssumption DEF RowInv, RowsOK, StationRow, StationIn
<1>3. RowsOK'
  BY <1>2 DEF RowInv, RowsOK
<1>4. ReferencesHold'
  BY <1>2 DEF RowInv, RowsOK, ReferencesHold, StationExists, CategoryRow, ItemRow, LineRow
<1>5. \A j \in ItemIds, a \in Branches : ItemIn(j, a) <=> ItemIn(j, a)'
  BY DEF ItemIn, CategoryIn
<1>6. \A t \in StationIds, a \in Branches : StationIn(t, a) <=> StationIn(t, a)'
  BY <1>2 DEF StationIn
<1>7. OwnBranch'
  <2>1. \A c \in CategoryIds : (category[c] # None /\ category[c].station_id # None
           => StationIn(category[c].station_id, category[c].branch_id))'
    BY <1>6 DEF RowInv, RowsOK, OwnBranch, CategoryRow
  <2>2. \A i \in ItemIds : (item[i] # None /\ item[i].station_id # None
           => StationIn(item[i].station_id, category[item[i].category_id].branch_id))'
    BY <1>6 DEF RowInv, RowsOK, OwnBranch, ReferencesHold, CategoryRow, ItemRow
  <2>3. \A l \in LineIds : (line[l] # None =>
           /\ ItemIn(line[l].item_id, line[l].branch_id)
           /\ line[l].station_id # None => StationIn(line[l].station_id, line[l].branch_id))'
    BY <1>5, <1>6 DEF RowInv, RowsOK, LineRow, OwnBranch
  <2> QED
    BY <2>1, <2>2, <2>3 DEF OwnBranch
<1>8. Kept
  BY <1>2, <1>6 DEF Kept, StationHere, CategoryHere, ItemHere, GroupHere, OptionHere,
                    CategoryIn, ItemIn, GroupIn, OptionIn, Settled, Present
<1>9. OnlyAdministeredChange
  BY <1>2 DEF OnlyAdministeredChange
<1> QED
  BY <1>3, <1>4, <1>7, <1>8, <1>9 DEF RowInv

\* A DELETE of a station, or of none: what was assigned to it is assigned to nothing.
LEMMA DropStation ==
    ASSUME RowInv, NEW b \in Branches, NEW s \in StationIds,
           Administered(b), StationHere(s, b),
           station'  = Without(station, {s}),
           category' = Unassigned(category, s),
           item'     = Unassigned(item, s),
           line'     = Unassigned(line, s),
           UNCHANGED <<group, option, used>>
    PROVE  RowInv' /\ Kept /\ OnlyAdministeredChange
<1>1. \A t \in StationIds : station'[t] = IF t = s THEN None ELSE station[t]
  BY DEF Without, RowInv, RowsOK
<1>2. \A c \in CategoryIds :
         /\ category'[c] # None <=> category[c] # None
         /\ category[c] # None =>
               /\ category[c] \in CategoryRow /\ category'[c] \in CategoryRow
               /\ category'[c].branch_id = category[c].branch_id
               /\ category'[c].station_id =
                     IF category[c].station_id = s THEN None ELSE category[c].station_id
               /\ category'[c] # category[c] => category[c].station_id = s
  BY IdsAssumption DEF Unassigned, RowInv, RowsOK, CategoryRow
<1>3. \A i \in ItemIds :
         /\ item'[i] # None <=> item[i] # None
         /\ item[i] # None =>
               /\ item[i] \in ItemRow /\ item'[i] \in ItemRow
               /\ item'[i].category_id = item[i].category_id
               /\ item'[i].station_id =
                     IF item[i].station_id = s THEN None ELSE item[i].station_id
               /\ item'[i] # item[i] => item[i].station_id = s
  BY IdsAssumption DEF Unassigned, RowInv, RowsOK, ItemRow
<1>4. \A l \in LineIds :
         /\ line'[l] # None <=> line[l] # None
         /\ line[l] # None =>
               /\ line[l] \in LineRow /\ line'[l] \in LineRow
               /\ line'[l].branch_id = line[l].branch_id
               /\ line'[l].item_id = line[l].item_id
               /\ line'[l].station_code = line[l].station_code
               /\ line'[l].station_id =
                     IF line[l].station_id = s THEN None ELSE line[l].station_id
  BY IdsAssumption DEF Unassigned, RowInv, RowsOK, LineRow
<1>5. RowsOK'
  <2>1. (station \in [StationIds -> StationRow \cup {None}])'
    BY DEF Without, RowInv, RowsOK
  <2>2. (category \in [CategoryIds -> CategoryRow \cup {None}])'
    BY <1>2 DEF Unassigned, RowInv, RowsOK
  <2>3. (item \in [ItemIds -> ItemRow \cup {None}])'
    BY <1>3 DEF Unassigned, RowInv, RowsOK
  <2>4. (line \in [LineIds -> LineRow \cup {None}])'
    BY <1>4 DEF Unassigned, RowInv, RowsOK
  <2> QED
    BY <1>1, <1>2, <1>3, <1>4, <2>1, <2>2, <2>3, <2>4 DEF RowInv, RowsOK
<1>6. \A t \in StationIds \ {s} : \A a : StationIn(t, a) <=> StationIn(t, a)'
  BY <1>1 DEF StationIn
<1>7. \A c \in CategoryIds : \A a : CategoryIn(c, a) <=> CategoryIn(c, a)'
  BY <1>2 DEF CategoryIn
<1>8. \A i \in ItemIds : \A a : ItemIn(i, a) <=> ItemIn(i, a)'
  BY <1>3, <1>7 DEF ItemIn, ItemRow
<1>9. ReferencesHold'
  <2>1. \A c \in CategoryIds : (category[c] # None => StationExists(category[c].station_id))'
    BY <1>1, <1>2 DEF RowInv, ReferencesHold, StationExists, CategoryRow
  <2>2. \A i \in ItemIds : (item[i] # None => /\ category[item[i].category_id] # None
                                              /\ StationExists(item[i].station_id))'
    <3> SUFFICES ASSUME NEW i \in ItemIds, item'[i] # None
                 PROVE  (category[item[i].category_id] # None /\ StationExists(item[i].station_id))'
      OBVIOUS
    <3>1. /\ item[i] # None /\ item'[i].category_id = item[i].category_id
          /\ item[i].category_id \in CategoryIds /\ item[i].station_id \in StationIds \cup {None}
          /\ item'[i].station_id = IF item[i].station_id = s THEN None ELSE item[i].station_id
      BY <1>3 DEF ItemRow
    <3>2. category[item[i].category_id] # None /\ StationExists(item[i].station_id)
      BY <3>1 DEF RowInv, ReferencesHold
    <3> QED
      BY <1>1, <1>2, <3>1, <3>2 DEF StationExists
  <2>3. \A l \in LineIds : (line[l] # None => /\ item[line[l].item_id] # None
                                              /\ StationExists(line[l].station_id))'
    <3> SUFFICES ASSUME NEW l \in LineIds, line'[l] # None
                 PROVE  (item[line[l].item_id] # None /\ StationExists(line[l].station_id))'
      OBVIOUS
    <3>1. /\ line[l] # None /\ line'[l].item_id = line[l].item_id
          /\ line[l].item_id \in ItemIds /\ line[l].station_id \in StationIds \cup {None}
          /\ line'[l].station_id = IF line[l].station_id = s THEN None ELSE line[l].station_id
      BY <1>4 DEF LineRow
    <3>2. item[line[l].item_id] # None /\ StationExists(line[l].station_id)
      BY <3>1 DEF RowInv, ReferencesHold
    <3> QED
      BY <1>1, <1>3, <3>1, <3>2 DEF StationExists
  <2>4. \A g \in GroupIds : (group[g] # None => item[group[g].item_id] # None)'
    BY <1>3 DEF RowInv, RowsOK, ReferencesHold, GroupRow
  <2>5. \A o \in OptionIds : (option[o] # None => group[option[o].group_id] # None)'
    BY DEF RowInv, ReferencesHold
  <2> QED
    BY <2>1, <2>2, <2>3, <2>4, <2>5 DEF ReferencesHold
<1>10. OwnBranch'
  <2>1. \A c \in CategoryIds : (category[c] # None /\ category[c].station_id # None
           => StationIn(category[c].station_id, category[c].branch_id))'
    BY <1>2, <1>6 DEF RowInv, OwnBranch, CategoryRow
  <2>2. \A i \in ItemIds : (item[i] # None /\ item[i].station_id # None
           => StationIn(item[i].station_id, category[item[i].category_id].branch_id))'
    <3> SUFFICES ASSUME NEW i \in ItemIds, item'[i] # None, item'[i].station_id # None
                 PROVE  StationIn(item[i].station_id, category[item[i].category_id].branch_id)'
      OBVIOUS
    <3>1. /\ item[i] # None /\ item[i].category_id \in CategoryIds
          /\ item'[i].category_id = item[i].category_id
          /\ item'[i].station_id = item[i].station_id
          /\ item[i].station_id \in StationIds \ {s}
      BY <1>3 DEF ItemRow
    <3>2. /\ StationIn(item[i].station_id, category[item[i].category_id].branch_id)
          /\ category[item[i].category_id] # None
      BY <3>1 DEF RowInv, OwnBranch, ReferencesHold
    <3> QED
      BY <1>1, <1>2, <3>1, <3>2 DEF StationIn
  <2>3. \A l \in LineIds : (line[l] # None =>
           /\ ItemIn(line[l].item_id, line[l].branch_id)
           /\ line[l].station_id # None => StationIn(line[l].station_id, line[l].branch_id))'
    <3> SUFFICES ASSUME NEW l \in LineIds, line'[l] # None
                 PROVE  (/\ ItemIn(line[l].item_id, line[l].branch_id)
                         /\ line[l].station_id # None
                               => StationIn(line[l].station_id, line[l].branch_id))'
      OBVIOUS
    <3>1. /\ line[l] # None /\ line[l] \in LineRow
          /\ line'[l].item_id = line[l].item_id
          /\ line'[l].branch_id = line[l].branch_id
          /\ line'[l].station_id # None => /\ line'[l].station_id = line[l].station_id
                                           /\ line[l].station_id \in StationIds \ {s}
      BY <1>4 DEF LineRow
    <3>2. /\ line[l].item_id \in ItemIds /\ ItemIn(line[l].item_id, line[l].branch_id)
          /\ line'[l].station_id # None => StationIn(line[l].station_id, line[l].branch_id)
      BY <3>1 DEF RowInv, OwnBranch, LineRow
    <3>3. ItemIn(line[l].item_id, line[l].branch_id)'
      <4>1. PICK j, a : j \in ItemIds /\ j = line[l].item_id /\ a = line[l].branch_id
        BY <3>2
      <4>2. ItemIn(j, a)'
        BY <1>8, <3>2, <4>1
      <4> QED
        BY <3>1, <4>1, <4>2 DEF ItemIn, CategoryIn
    <3> QED
      BY <1>1, <3>1, <3>2, <3>3 DEF StationIn
  <2> QED
    BY <2>1, <2>2, <2>3 DEF OwnBranch
<1>11. Kept
  <2>1. \A a \in Branches :
           /\ \A t \in StationIds : StationHere(t, a) => StationHere(t, a)'
           /\ \A c \in CategoryIds : CategoryHere(c, a) => CategoryHere(c, a)'
           /\ \A i \in ItemIds : ItemHere(i, a) => ItemHere(i, a)'
    BY <1>1, <1>2, <1>3, <1>7, <1>8 DEF StationHere, CategoryHere, ItemHere, StationIn
  <2>2. \A a \in Branches, g \in GroupIds : /\ GroupIn(g, a) <=> GroupIn(g, a)'
                                            /\ GroupHere(g, a) => GroupHere(g, a)'
    BY <1>8 DEF GroupHere, GroupIn, RowInv, RowsOK, GroupRow
  <2>3. \A a \in Branches, o \in OptionIds : OptionHere(o, a) => OptionHere(o, a)'
    BY <2>2 DEF OptionHere, OptionIn, RowInv, RowsOK, OptionRow
  <2>4. \A op, id : Settled(op, id) => Settled(op, id)'
    BY <1>2, <1>3 DEF Settled, Present
  <2>5. \A l \in LineIds : line[l] # None => /\ line'[l] # None
                                             /\ line'[l].station_code = line[l].station_code
    BY <1>4
  <2> QED
    BY <2>1, <2>2, <2>3, <2>4, <2>5 DEF Kept
<1>12. OnlyAdministeredChange
  <2>1. ASSUME NEW t \in StationIds, station'[t] # station[t]
        PROVE  StationIn(t, b)
    BY <1>1, <2>1 DEF StationHere
  <2>2. ASSUME NEW c \in CategoryIds, category'[c] # category[c]
        PROVE  CategoryIn(c, b)
    <3>1. category[c] # None /\ category[c].station_id = s
      BY <1>2, <2>2
    <3>2. StationIn(s, category[c].branch_id) /\ s # None
      BY <3>1, IdsAssumption DEF RowInv, OwnBranch
    <3> QED
      BY <3>1, <3>2 DEF StationHere, StationIn, CategoryIn
  <2>3. ASSUME NEW i \in ItemIds, item'[i] # item[i]
        PROVE  ItemIn(i, b)
    <3>1. item[i] # None /\ item[i].station_id = s
      BY <1>3, <2>3
    <3>2. /\ StationIn(s, category[item[i].category_id].branch_id) /\ s # None
          /\ category[item[i].category_id] # None
      BY <3>1, IdsAssumption DEF RowInv, OwnBranch, ReferencesHold
    <3> QED
      BY <3>1, <3>2 DEF StationHere, StationIn, CategoryIn, ItemIn
  <2> QED
    BY <2>1, <2>2, <2>3 DEF OnlyAdministeredChange
<1> QED
  BY <1>5, <1>9, <1>10, <1>11, <1>12 DEF RowInv

\* A DELETE with what cascades from it: categories C, items I, groups G, options O.
LEMMA Cascade ==
    ASSUME RowInv, NEW b \in Branches, NEW C, NEW I, NEW G, NEW O, Administered(b),
           \A c \in CategoryIds \cap C : category[c] # None => CategoryIn(c, b),
           \A i \in ItemIds \cap I : item[i] # None => ItemIn(i, b),
           \A g \in GroupIds \cap G : group[g] # None => GroupIn(g, b),
           \A o \in OptionIds \cap O : option[o] # None => OptionIn(o, b),
           \A i \in ItemIds : item[i] # None /\ item[i].category_id \in C => i \in I,
           \A g \in GroupIds : group[g] # None /\ group[g].item_id \in I => g \in G,
           \A o \in OptionIds : option[o] # None /\ option[o].group_id \in G => o \in O,
           \A l \in LineIds : line[l] # None => line[l].item_id \notin I,
           category' = Without(category, C), item' = Without(item, I),
           group' = Without(group, G), option' = Without(option, O),
           UNCHANGED <<station, line, used>>
    PROVE  RowInv' /\ Kept /\ OnlyAdministeredChange
<1>1. /\ \A c \in CategoryIds : category'[c] = IF c \in C THEN None ELSE category[c]
      /\ \A i \in ItemIds : item'[i] = IF i \in I THEN None ELSE item[i]
      /\ \A g \in GroupIds : group'[g] = IF g \in G THEN None ELSE group[g]
      /\ \A o \in OptionIds : option'[o] = IF o \in O THEN None ELSE option[o]
  BY DEF Without, RowInv, RowsOK
<1>2. RowsOK'
  <2>1. (category \in [CategoryIds -> CategoryRow \cup {None}])'
    BY DEF Without, RowInv, RowsOK
  <2>2. (item \in [ItemIds -> ItemRow \cup {None}])'
    BY DEF Without, RowInv, RowsOK
  <2>3. (group \in [GroupIds -> GroupRow \cup {None}])'
    BY DEF Without, RowInv, RowsOK
  <2>4. (option \in [OptionIds -> OptionRow \cup {None}])'
    BY DEF Without, RowInv, RowsOK
  <2> QED
    BY <1>1, <2>1, <2>2, <2>3, <2>4 DEF RowInv, RowsOK
<1>3. /\ \A i \in ItemIds : item[i] # None => item[i].category_id \in CategoryIds
      /\ \A g \in GroupIds : group[g] # None => group[g].item_id \in ItemIds
      /\ \A o \in OptionIds : option[o] # None => option[o].group_id \in GroupIds
      /\ \A l \in LineIds : line[l] # None => line[l].item_id \in ItemIds
  BY DEF RowInv, RowsOK, ItemRow, GroupRow, OptionRow, LineRow
<1>4. ReferencesHold'
  BY <1>1, <1>3 DEF RowInv, ReferencesHold, StationExists
<1>5. \A i \in ItemIds \ I : \A a : ItemIn(i, a) => ItemIn(i, a)'
  BY <1>1, <1>3 DEF ItemIn, CategoryIn
<1>6. OwnBranch'
  <2>1. \A c \in CategoryIds : (category[c] # None /\ category[c].station_id # None
           => StationIn(category[c].station_id, category[c].branch_id))'
    BY <1>1 DEF RowInv, OwnBranch, StationIn
  <2>2. \A i \in ItemIds : (item[i] # None /\ item[i].station_id # None
           => StationIn(item[i].station_id, category[item[i].category_id].branch_id))'
    BY <1>1, <1>3 DEF RowInv, OwnBranch, StationIn
  <2>3. \A l \in LineIds : (line[l] # None =>
           /\ ItemIn(line[l].item_id, line[l].branch_id)
           /\ line[l].station_id # None => StationIn(line[l].station_id, line[l].branch_id))'
    BY <1>3, <1>5 DEF RowInv, OwnBranch, StationIn
  <2> QED
    BY <2>1, <2>2, <2>3 DEF OwnBranch
<1>7. Kept
  <2>1. \A a \in Branches :
           /\ \A s \in StationIds : StationHere(s, a) => StationHere(s, a)'
           /\ \A c \in CategoryIds : CategoryHere(c, a) => CategoryHere(c, a)'
    BY <1>1 DEF StationHere, CategoryHere, StationIn, CategoryIn
  <2>2. \A a \in Branches, i \in ItemIds : ItemHere(i, a) => ItemHere(i, a)'
    BY <1>1, <1>5 DEF ItemHere
  <2>3. \A g \in GroupIds \ G : \A a : GroupIn(g, a) => GroupIn(g, a)'
    BY <1>1, <1>3, <1>5 DEF GroupIn
  <2>4. \A a \in Branches, g \in GroupIds : GroupHere(g, a) => GroupHere(g, a)'
    BY <1>1, <2>3 DEF GroupHere
  <2>5. \A a \in Branches, o \in OptionIds : OptionHere(o, a) => OptionHere(o, a)'
    BY <1>1, <1>3, <2>3 DEF OptionHere, OptionIn
  <2>6. \A op, id : Settled(op, id) => Settled(op, id)'
    BY <1>1 DEF Settled, Present
  <2> QED
    BY <2>1, <2>2, <2>4, <2>5, <2>6 DEF Kept
<1>8. OnlyAdministeredChange
  BY <1>1 DEF OnlyAdministeredChange
<1> QED
  BY <1>2, <1>4, <1>6, <1>7, <1>8 DEF RowInv

\* An order line is written.
LEMMA PutLine ==
    ASSUME RowInv, NEW l \in LineIds, l \notin used, NEW row \in LineRow,
           ItemIn(row.item_id, row.branch_id),
           row.station_id # None => StationIn(row.station_id, row.branch_id),
           line' = [line EXCEPT ![l] = row], used' = used \cup {l},
           UNCHANGED <<station, category, item, group, option>>
    PROVE  RowInv' /\ Kept /\ OnlyAdministeredChange
<1>1. /\ row # None /\ line[l] = None
      /\ \A m \in LineIds : line'[m] = IF m = l THEN row ELSE line[m]
      /\ used \subseteq used'
  BY IdsAssumption DEF RowInv, RowsOK
<1>2. RowsOK'
  BY <1>1 DEF RowInv, RowsOK
<1>3. ReferencesHold'
  BY <1>1 DEF RowInv, ReferencesHold, StationExists, StationIn, ItemIn
<1>4. OwnBranch'
  BY <1>1 DEF RowInv, OwnBranch, StationIn, ItemIn, CategoryIn
<1>5. Kept
  BY <1>1 DEF Kept, StationHere, CategoryHere, ItemHere, GroupHere, OptionHere, StationIn,
              CategoryIn, ItemIn, GroupIn, OptionIn, Settled, Present
<1>6. OnlyAdministeredChange
  BY DEF OnlyAdministeredChange
<1> QED
  BY <1>2, <1>3, <1>4, <1>5, <1>6 DEF RowInv

\* The order of a line ends.
LEMMA CloseLine ==
    ASSUME RowInv, NEW l \in LineIds, line[l] # None,
           line' = [line EXCEPT ![l].open = FALSE],
           UNCHANGED <<station, category, item, group, option, used>>
    PROVE  RowInv' /\ Kept /\ OnlyAdministeredChange
<1>1. /\ line' \in [LineIds -> LineRow \cup {None}]
      /\ \A m \in LineIds : /\ line'[m] # None <=> line[m] # None
                            /\ line'[m].branch_id = line[m].branch_id
                            /\ line'[m].item_id = line[m].item_id
                            /\ line'[m].station_id = line[m].station_id
                            /\ line'[m].station_code = line[m].station_code
  <2>1. line[l] \in LineRow
    BY DEF RowInv, RowsOK
  <2>2. PICK row : row = [line[l] EXCEPT !.open = FALSE]
    OBVIOUS
  <2>3. row \in LineRow
    BY <2>1, <2>2 DEF LineRow
  <2>4. /\ row.branch_id = line[l].branch_id
        /\ row.item_id = line[l].item_id
        /\ row.station_id = line[l].station_id
        /\ row.station_code = line[l].station_code
    BY <2>1, <2>2 DEF LineRow
  <2>5. /\ line' = [line EXCEPT ![l] = row]
        /\ line \in [LineIds -> LineRow \cup {None}]
    BY <2>2 DEF RowInv, RowsOK
  <2>6. row # None
    BY <2>3, IdsAssumption
  <2>7. /\ \A m \in LineIds : line'[m] = IF m = l THEN row ELSE line[m]
        /\ line' \in [LineIds -> LineRow \cup {None}]
    BY <2>3, <2>5
  <2> QED
    BY <2>4, <2>6, <2>7
<1>2. RowsOK'
  BY <1>1 DEF RowInv, RowsOK
<1>3. ReferencesHold'
  BY <1>1 DEF RowInv, ReferencesHold, StationExists
<1>4. OwnBranch'
  BY <1>1 DEF RowInv, OwnBranch, StationIn, ItemIn, CategoryIn
<1>5. Kept
  BY <1>1 DEF Kept, StationHere, CategoryHere, ItemHere, GroupHere, OptionHere, StationIn,
              CategoryIn, ItemIn, GroupIn, OptionIn, Settled, Present
<1>6. OnlyAdministeredChange
  BY DEF OnlyAdministeredChange
<1> QED
  BY <1>2, <1>3, <1>4, <1>5, <1>6 DEF RowInv

-----------------------------------------------------------------------------
(* What the requests rely on, part by part *)

EditsOK == DOMAIN edit = Edits /\ \A x \in {edit[e] : e \in Edits} : EditOK(x)
CartsOK == cart \in [Checkouts -> CartRecord] /\ \A x \in {cart[g] : g \in Checkouts} : CartOK(x)
AuditOK == \A entry \in audit : Settled(entry[1], entry[2])
TicketsOK == \A t \in kds : TicketOK(t)

LEMMA PartsOfIInv == IInv <=> RowInv /\ EditsOK /\ CartsOK /\ AuditOK /\ TicketsOK
BY DEF IInv, TypeOK, RowInv, EditsOK, CartsOK, AuditOK, TicketsOK

LEMMA PartsOfIInvPrimed == IInv' <=> RowInv' /\ EditsOK' /\ CartsOK' /\ AuditOK' /\ TicketsOK'
BY DEF IInv, TypeOK, RowInv, EditsOK, CartsOK, AuditOK, TicketsOK

\* What a staff request found stays so while others commit.
LEMMA KeptEdit ==
    ASSUME Kept, NEW x, EditOK(x)
    PROVE  EditOK(x)'
<1>1. x.pc = "loaded" => x.branch \in Branches
  BY AccessAssumption DEF EditOK, Administered
<1>2. x.pc = "loaded" => LoadedCategory(x)'
  BY <1>1 DEF Kept, EditOK, LoadedCategory, NamesStation, CategoryPatch, CategoryRow
<1>3. x.pc = "loaded" => LoadedItem(x)'
  BY <1>1 DEF Kept, EditOK, LoadedItem, NamesStation, ItemPatch, ItemRow
<1>4. x.pc = "loaded" => LoadedModifier(x)'
  BY <1>1 DEF Kept, EditOK, LoadedModifier, GroupRow, OptionRow
<1>5. x.pc = "loaded" => LoadedStation(x)'
  BY <1>1 DEF Kept, EditOK, LoadedStation
<1>6. x.pc \in {"committed", "refreshed"} => Settled(x.op, x.id)'
  BY DEF Kept, EditOK
<1> QED
  BY <1>2, <1>3, <1>4, <1>5, <1>6 DEF EditOK, Administered

\* What a checkout found stays so while others commit.
LEMMA KeptCart ==
    ASSUME Kept, NEW x \in CartRecord, CartOK(x)
    PROVE  CartOK(x)'
<1>1. x.station_id \in StationIds \cup {None}
  BY DEF CartRecord
<1>2. x.row \in ItemRow => /\ x.row.category_id \in CategoryIds
                           /\ x.row.station_id \in StationIds \cup {None}
  BY DEF ItemRow
<1>3. /\ \A i \in ItemIds, b \in Branches : ItemHere(i, b) => ItemHere(i, b)'
      /\ \A c \in CategoryIds, b \in Branches : CategoryHere(c, b) => CategoryHere(c, b)'
      /\ \A s \in StationIds \cup {None}, b \in Branches :
            NamesStation(s, b) => NamesStation(s, b)'
      /\ \A l \in LineIds : line[l] # None => line'[l] # None
  BY DEF Kept, NamesStation
<1> QED
  BY <1>1, <1>2, <1>3 DEF CartOK

LEMMA CartsStay ==
    ASSUME CartsOK, Kept, cart' = cart
    PROVE  CartsOK'
<1>1. ASSUME NEW g \in Checkouts
      PROVE  CartOK(cart[g])'
  <2>1. PICK x \in CartRecord : x = cart[g] /\ CartOK(x)
    BY DEF CartsOK
  <2>2. CartOK(x)'
    BY <2>1, KeptCart
  <2> QED
    BY <2>1, <2>2
<1> QED
  BY <1>1 DEF CartsOK

LEMMA EditsStay ==
    ASSUME EditsOK, Kept, edit' = edit
    PROVE  EditsOK'
<1>1. ASSUME NEW e \in Edits
      PROVE  EditOK(edit[e])'
  <2>1. PICK x : x = edit[e] /\ EditOK(x)
    BY DEF EditsOK
  <2>2. EditOK(x)'
    BY <2>1, KeptEdit
  <2> QED
    BY <2>1, <2>2
<1> QED
  BY <1>1 DEF EditsOK

LEMMA AuditStays ==
    ASSUME AuditOK, Kept, audit' = audit
    PROVE  AuditOK'
BY DEF AuditOK, Kept

LEMMA TicketsStay ==
    ASSUME TicketsOK, Kept, kds' = kds
    PROVE  TicketsOK'
BY DEF TicketsOK, TicketOK, Kept

\* One staff request goes on to x.
LEMMA EditMoves ==
    ASSUME EditsOK, Kept, NEW e \in Edits, NEW x, edit' = [edit EXCEPT ![e] = x], EditOK(x)'
    PROVE  EditsOK'
<1>1. DOMAIN edit' = Edits /\ \A f \in Edits : edit'[f] = IF f = e THEN x ELSE edit[f]
  BY DEF EditsOK
<1>2. ASSUME NEW f \in Edits
      PROVE  EditOK(edit[f])'
  <2>1. CASE f = e
    BY <1>1, <2>1
  <2>2. CASE f # e
    <3>1. PICK y : y = edit[f] /\ EditOK(y)
      BY DEF EditsOK
    <3>2. EditOK(y)'
      BY <3>1, KeptEdit
    <3> QED
      BY <1>1, <2>2, <3>1, <3>2
  <2> QED
    BY <2>1, <2>2
<1> QED
  BY <1>1, <1>2 DEF EditsOK

\* One checkout goes on to x.
LEMMA CartMoves ==
    ASSUME CartsOK, Kept, NEW g \in Checkouts, NEW x \in CartRecord,
           cart' = [cart EXCEPT ![g] = x], CartOK(x)'
    PROVE  CartsOK'
<1>1. /\ cart' \in [Checkouts -> CartRecord]
      /\ \A f \in Checkouts : cart'[f] = IF f = g THEN x ELSE cart[f]
  BY DEF CartsOK
<1>2. ASSUME NEW f \in Checkouts
      PROVE  CartOK(cart[f])'
  <2>1. CASE f = g
    BY <1>1, <2>1
  <2>2. CASE f # g
    <3>1. PICK y \in CartRecord : y = cart[f] /\ CartOK(y)
      BY DEF CartsOK
    <3>2. CartOK(y)'
      BY <3>1, KeptCart
    <3> QED
      BY <1>1, <2>2, <3>1, <3>2
  <2> QED
    BY <2>1, <2>2
<1> QED
  BY <1>1, <1>2 DEF CartsOK

\* A staff request goes on to x, with nothing to be shown or logged.
LEMMA EditStep ==
    ASSUME IInv, RowInv', Kept, NEW e \in Edits, NEW x,
           edit' = [edit EXCEPT ![e] = x], EditOK(x)', UNCHANGED <<cart, audit, kds>>
    PROVE  IInv'
BY PartsOfIInv, PartsOfIInvPrimed, EditMoves, CartsStay, AuditStays, TicketsStay

\* A staff request answers.
LEMMA RespondStep ==
    ASSUME IInv, RowInv', Kept, NEW e \in Edits, Respond(e), UNCHANGED <<cart, audit, kds>>
    PROVE  IInv'
<1> DEFINE x == [pc |-> "done", op |-> "none", branch |-> None, id |-> None,
                 patch |-> None, tell |-> "nothing"]
<1>1. EditOK(x)'
  BY DEF EditOK
<1>2. edit' = [edit EXCEPT ![e] = x]
  BY DEF Respond
<1> HIDE DEF x
<1> QED
  BY <1>1, <1>2, EditStep

\* A checkout goes on to x.
LEMMA CartStep ==
    ASSUME IInv, RowInv', Kept, NEW g \in Checkouts, NEW x \in CartRecord,
           cart' = [cart EXCEPT ![g] = x], CartOK(x)', UNCHANGED <<edit, audit, kds>>
    PROVE  IInv'
BY PartsOfIInv, PartsOfIInvPrimed, EditsStay, CartMoves, AuditStays, TicketsStay

\* A staff request that passed its checks relies on what they found.
LEMMA LoadStep ==
    ASSUME IInv, NEW e \in Edits, NEW op, NEW b, NEW id, NEW patch, NEW tell,
           Load(e, op, b, id, patch, tell),
           EditOK([pc |-> "loaded", op |-> op, branch |-> b, id |-> id, patch |-> patch,
                   tell |-> tell])
    PROVE  IInv' /\ OnlyAdministeredChange
<1> DEFINE x == [pc |-> "loaded", op |-> op, branch |-> b, id |-> id, patch |-> patch,
                 tell |-> tell]
<1>1. RowInv
  BY PartsOfIInv
<1>2. RowInv' /\ Kept /\ OnlyAdministeredChange
  BY <1>1, QuietStep DEF Load
<1>3. EditOK(x)'
  BY <1>2, KeptEdit
<1>4. edit' = [edit EXCEPT ![e] = x] /\ UNCHANGED <<cart, audit, kds>>
  BY DEF Load, effects
<1> HIDE DEF x
<1> QED
  BY <1>2, <1>3, <1>4, EditStep

-----------------------------------------------------------------------------
(* Edits of the menu pass their checks *)

LEMMA ChangedColumns ==
    ASSUME NEW body, NEW row
    PROVE  /\ DOMAIN Changed(body, row) \subseteq DOMAIN body
           /\ \A c \in DOMAIN Changed(body, row) : Changed(body, row)[c] = body[c]
BY DEF Changed

\* Whoever a request of a manager comes from may administer the branch.
LEMMA ManagedAreAdministered ==
    /\ \A b \in Managed : Administered(b) /\ b \in Branches
    /\ \A b \in Equipped : Administered(b) /\ b \in Branches
BY AdmittedAreAdministered DEF Managed, Equipped, MenuEndpointRoles, StationEndpointRoles

\* What a query finds in a branch is Here.
LEMMA FoundIsHere ==
    ASSUME RowInv
    PROVE  \A b : /\ \A s \in StationIds : StationIn(s, b) => StationHere(s, b)
                  /\ \A c \in CategoryIds : CategoryIn(c, b) => CategoryHere(c, b)
                  /\ \A i \in ItemIds : ItemIn(i, b) => ItemHere(i, b)
                  /\ \A g \in GroupIds : GroupIn(g, b) => GroupHere(g, b)
                  /\ \A o \in OptionIds : OptionIn(o, b) => OptionHere(o, b)
BY DEF RowInv, RowsOK, StationHere, CategoryHere, ItemHere, GroupHere, OptionHere,
       StationIn, CategoryIn, ItemIn, GroupIn, OptionIn

LEMMA CreateCategorySafe ==
    ASSUME IInv, NEW e \in Edits, NEW b \in Managed, NEW c \in CategoryIds,
           CreateCategory(e, b, c)
    PROVE  IInv' /\ OnlyAdministeredChange
<1>1. PICK body \in NewCategories :
         /\ StationOfBodyIn(body, b)
         /\ Load(e, "CATEGORY_CREATED", b, c,
                 [branch_id |-> b, station_id |-> body.station_id, station |-> body.station,
                  is_active |-> body.is_active], "nothing")
  BY DEF CreateCategory
<1> DEFINE row == [branch_id |-> b, station_id |-> body.station_id, station |-> body.station,
                   is_active |-> body.is_active]
           x == [pc |-> "loaded", op |-> "CATEGORY_CREATED", branch |-> b, id |-> c,
                 patch |-> row, tell |-> "nothing"]
<1>2. Administered(b) /\ b \in Branches /\ RowInv
  BY ManagedAreAdministered, PartsOfIInv
<1>3. body \in [station_id : StationIds \cup {None}, station : KitchenStation,
                is_active : BOOLEAN]
  BY BodiesAssumption
<1>4. row \in CategoryRow
  BY <1>2, <1>3 DEF CategoryRow
<1>5. NamesStation(body.station_id, b)
  BY <1>1, <1>2, <1>3, FoundIsHere DEF NamesStation, StationOfBodyIn
<1>6. LoadedCategory(x)
  BY <1>4, <1>5 DEF LoadedCategory
<1>7. EditOK(x)
  BY <1>2, <1>6 DEF EditOK, LoadedItem, LoadedModifier, LoadedStation
<1> QED
  BY <1>1, <1>7, LoadStep

LEMMA UpdateCategorySafe ==
    ASSUME IInv, NEW e \in Edits, NEW b \in Managed, NEW c \in CategoryIds,
           UpdateCategory(e, b, c)
    PROVE  IInv' /\ OnlyAdministeredChange
<1>1. PICK body \in CategoryBodies :
         /\ CategoryIn(c, b) /\ StationOfBodyIn(body, b)
         /\ Load(e, "CATEGORY_UPDATED", b, c, Changed(body, category[c]), "nothing")
  BY DEF UpdateCategory
<1>2. PICK patch : patch = Changed(body, category[c])
  OBVIOUS
<1> DEFINE x == [pc |-> "loaded", op |-> "CATEGORY_UPDATED", branch |-> b, id |-> c,
                 patch |-> patch, tell |-> "nothing"]
<1>3. Administered(b) /\ RowInv
  BY ManagedAreAdministered, PartsOfIInv
<1>4. /\ DOMAIN patch \subseteq DOMAIN body
      /\ \A k \in DOMAIN patch : patch[k] = body[k]
  BY <1>2, ChangedColumns
<1>5. CategoryPatch(body)
  BY BodiesAssumption
<1>6. CategoryPatch(patch)
  BY <1>4, <1>5 DEF CategoryPatch
<1>7. "station_id" \in DOMAIN patch => StationHere(patch.station_id, b)
  BY <1>1, <1>3, <1>4, <1>5, FoundIsHere, IdsAssumption DEF StationOfBodyIn, CategoryPatch
<1>8. LoadedCategory(x)
  BY <1>1, <1>3, <1>6, <1>7, FoundIsHere DEF LoadedCategory
<1>9. EditOK(x)
  BY <1>3, <1>8 DEF EditOK, LoadedItem, LoadedModifier, LoadedStation
<1> QED
  BY <1>1, <1>2, <1>9, LoadStep
LEMMA DeleteCategorySafe ==
    ASSUME IInv, NEW e \in Edits, NEW b \in Managed, NEW c \in CategoryIds, NEW soft \in BOOLEAN,
           DeleteCategory(e, b, c, soft)
    PROVE  IInv' /\ OnlyAdministeredChange
<1>1. Administered(b) /\ CategoryHere(c, b)
  BY ManagedAreAdministered, PartsOfIInv, FoundIsHere DEF DeleteCategory
<1>2. CASE soft
  <2>1. PICK patch : patch = Changed([is_active |-> FALSE], category[c])
    OBVIOUS
  <2> DEFINE x == [pc |-> "loaded", op |-> "CATEGORY_DEACTIVATED", branch |-> b, id |-> c,
                   patch |-> patch, tell |-> "nothing"]
  <2>2. /\ DOMAIN patch \subseteq {"is_active"}
        /\ "is_active" \in DOMAIN patch => patch.is_active = FALSE
    BY <2>1 DEF Changed
  <2>3. LoadedCategory(x)
    BY <1>1, <2>2 DEF LoadedCategory, CategoryPatch
  <2>4. EditOK(x)
    BY <1>1, <2>3 DEF EditOK, LoadedItem, LoadedModifier, LoadedStation
  <2> QED
    BY <1>2, <2>1, <2>4, LoadStep DEF DeleteCategory
<1>3. CASE ~soft
  <2> DEFINE x == [pc |-> "loaded", op |-> "CATEGORY_DELETED", branch |-> b, id |-> c,
                   patch |-> None, tell |-> "nothing"]
  <2>1. EditOK(x)
    BY <1>1 DEF EditOK, LoadedCategory, LoadedItem, LoadedModifier, LoadedStation
  <2> QED
    BY <1>3, <2>1, LoadStep DEF DeleteCategory
<1> QED
  BY <1>2, <1>3

LEMMA CreateItemSafe ==
    ASSUME IInv, NEW e \in Edits, NEW b \in Managed, NEW i \in ItemIds, CreateItem(e, b, i)
    PROVE  IInv' /\ OnlyAdministeredChange
<1>1. PICK body \in NewItems :
         LET c == body.category_id
             s == IF body.station_id # None THEN body.station_id ELSE category[c].station_id
         IN  /\ CategoryIn(c, b)
             /\ s # None => StationIn(s, b)
             /\ i \in Fresh(ItemIds)
             /\ Load(e, "ITEM_CREATED", b, i,
                     [category_id |-> c, station_id |-> s,
                      station |-> IF body.station # None THEN body.station
                                  ELSE category[c].station,
                      is_available |-> body.is_available, base_price |-> body.base_price],
                     "nothing")
  BY DEF CreateItem
<1>2. body \in [category_id : CategoryIds, station_id : StationIds \cup {None},
                station : KitchenStation \cup {None}, is_available : BOOLEAN,
                base_price : Prices]
  BY BodiesAssumption
<1>3. Administered(b) /\ RowInv
  BY ManagedAreAdministered, PartsOfIInv
<1>4. PICK c \in CategoryIds : c = body.category_id
  BY <1>2
<1>5. category[c] \in CategoryRow
  BY <1>1, <1>3, <1>4 DEF RowInv, RowsOK, CategoryIn
<1>6. PICK s \in StationIds \cup {None} :
         s = IF body.station_id # None THEN body.station_id ELSE category[c].station_id
  BY <1>2, <1>5 DEF CategoryRow
<1>7. PICK k \in KitchenStation \cup {None} :
         k = IF body.station # None THEN body.station ELSE category[c].station
  BY <1>2, <1>5 DEF CategoryRow
<1> DEFINE row == [category_id |-> c, station_id |-> s, station |-> k,
                   is_available |-> body.is_available, base_price |-> body.base_price]
           x == [pc |-> "loaded", op |-> "ITEM_CREATED", branch |-> b, id |-> i,
                 patch |-> row, tell |-> "nothing"]
<1>8. row \in ItemRow
  BY <1>2 DEF ItemRow
<1>9. /\ CategoryIn(c, b)
      /\ s # None => StationIn(s, b)
      /\ Load(e, "ITEM_CREATED", b, i, row, "nothing")
  BY <1>1, <1>4, <1>6, <1>7
<1>10. NamesStation(s, b) /\ CategoryHere(c, b)
  BY <1>3, <1>9, FoundIsHere DEF NamesStation
<1>11. LoadedItem(x)
  BY <1>8, <1>10 DEF LoadedItem
<1>12. EditOK(x)
  BY <1>3, <1>11 DEF EditOK, LoadedCategory, LoadedModifier, LoadedStation
<1> QED
  BY <1>9, <1>12, LoadStep

LEMMA UpdateItemSafe ==
    ASSUME IInv, NEW e \in Edits, NEW b \in Managed, NEW i \in ItemIds, UpdateItem(e, b, i)
    PROVE  IInv' /\ OnlyAdministeredChange
<1>1. PICK body \in ItemBodies :
         /\ ItemIn(i, b)
         /\ "category_id" \in DOMAIN body /\ body.category_id # item[i].category_id
               => CategoryIn(body.category_id, b)
         /\ StationOfBodyIn(body, b)
         /\ Load(e, "ITEM_UPDATED", b, i, Changed(body, item[i]),
                 IF "is_available" \in DOMAIN body THEN "stored" ELSE "nothing")
  BY DEF UpdateItem
<1>2. PICK patch : patch = Changed(body, item[i])
  OBVIOUS
<1>3. PICK tell : tell = IF "is_available" \in DOMAIN body THEN "stored" ELSE "nothing"
  OBVIOUS
<1> DEFINE x == [pc |-> "loaded", op |-> "ITEM_UPDATED", branch |-> b, id |-> i,
                 patch |-> patch, tell |-> tell]
<1>4. Administered(b) /\ RowInv
  BY ManagedAreAdministered, PartsOfIInv
<1>5. /\ DOMAIN patch \subseteq DOMAIN body
      /\ \A k \in DOMAIN patch : patch[k] = body[k] /\ patch[k] # item[i][k]
  BY <1>2 DEF Changed
<1>6. ItemPatch(body)
  BY BodiesAssumption
<1>7. ItemPatch(patch)
  BY <1>5, <1>6 DEF ItemPatch
<1>8. "category_id" \in DOMAIN patch => CategoryHere(patch.category_id, b)
  BY <1>1, <1>4, <1>5, <1>6, FoundIsHere DEF ItemPatch
<1>9. "station_id" \in DOMAIN patch => StationHere(patch.station_id, b)
  BY <1>1, <1>4, <1>5, <1>6, FoundIsHere, IdsAssumption DEF StationOfBodyIn, ItemPatch
<1>10. LoadedItem(x)
  BY <1>1, <1>4, <1>7, <1>8, <1>9, FoundIsHere DEF LoadedItem
<1>11. EditOK(x)
  BY <1>4, <1>10 DEF EditOK, LoadedCategory, LoadedModifier, LoadedStation
<1> QED
  BY <1>1, <1>2, <1>3, <1>11, LoadStep

\* The 86 switch, and the deletion of an item that only hides it.
LEMMA SwitchItem ==
    ASSUME IInv, NEW e \in Edits, NEW b \in Managed, NEW i \in ItemIds, NEW flag \in BOOLEAN,
           NEW op \in {"ITEM_RESTOCKED", "ITEM_86_TRIGGERED", "ITEM_DEACTIVATED"}, NEW tell,
           ItemIn(i, b), Load(e, op, b, i, Changed([is_available |-> flag], item[i]), tell)
    PROVE  IInv' /\ OnlyAdministeredChange
<1>1. Administered(b) /\ ItemHere(i, b)
  BY ManagedAreAdministered, PartsOfIInv, FoundIsHere
<1>2. PICK patch : patch = Changed([is_available |-> flag], item[i])
  OBVIOUS
<1> DEFINE x == [pc |-> "loaded", op |-> op, branch |-> b, id |-> i, patch |-> patch,
                 tell |-> tell]
<1>3. /\ DOMAIN patch \subseteq {"is_available"}
      /\ "is_available" \in DOMAIN patch => patch.is_available = flag
  BY <1>2 DEF Changed
<1>4. LoadedItem(x)
  BY <1>1, <1>3 DEF LoadedItem, ItemPatch
<1>5. EditOK(x)
  BY <1>1, <1>4 DEF EditOK, LoadedCategory, LoadedModifier, LoadedStation
<1> QED
  BY <1>2, <1>5, LoadStep

LEMMA DeleteItemSafe ==
    ASSUME IInv, NEW e \in Edits, NEW b \in Managed, NEW i \in ItemIds, NEW soft \in BOOLEAN,
           DeleteItem(e, b, i, soft)
    PROVE  IInv' /\ OnlyAdministeredChange
<1>1. CASE soft
  BY <1>1, SwitchItem DEF DeleteItem
<1>2. CASE ~soft
  <2> DEFINE x == [pc |-> "loaded", op |-> "ITEM_DELETED", branch |-> b, id |-> i,
                   patch |-> None, tell |-> "nothing"]
  <2>1. Administered(b) /\ ItemHere(i, b)
    BY ManagedAreAdministered, PartsOfIInv, FoundIsHere DEF DeleteItem
  <2>2. EditOK(x)
    BY <2>1 DEF EditOK, LoadedCategory, LoadedItem, LoadedModifier, LoadedStation
  <2> QED
    BY <1>2, <2>2, LoadStep DEF DeleteItem
<1> QED
  BY <1>1, <1>2

LEMMA SetItemAvailabilitySafe ==
    ASSUME IInv, NEW e \in Edits, NEW b \in Managed, NEW i \in ItemIds, NEW flag \in BOOLEAN,
           SetItemAvailability(e, b, i, flag)
    PROVE  IInv' /\ OnlyAdministeredChange
<1>1. CASE flag
  BY <1>1, SwitchItem DEF SetItemAvailability
<1>2. CASE ~flag
  BY <1>2, SwitchItem DEF SetItemAvailability
<1> QED
  BY <1>1, <1>2
LEMMA CreateModifierGroupSafe ==
    ASSUME IInv, NEW e \in Edits, NEW b \in Managed, NEW i \in ItemIds, NEW g \in GroupIds,
           CreateModifierGroup(e, b, i, g)
    PROVE  IInv' /\ OnlyAdministeredChange
<1>1. PICK body \in NewGroups :
         /\ ItemIn(i, b)
         /\ Load(e, "MODIFIER_GROUP_CREATED", b, g,
                 [item_id |-> i, min_choices |-> body.min_choices,
                  max_choices |-> body.max_choices, is_required |-> body.is_required],
                 "nothing")
  BY DEF CreateModifierGroup
<1> DEFINE row == [item_id |-> i, min_choices |-> body.min_choices,
                   max_choices |-> body.max_choices, is_required |-> body.is_required]
           x == [pc |-> "loaded", op |-> "MODIFIER_GROUP_CREATED", branch |-> b, id |-> g,
                 patch |-> row, tell |-> "nothing"]
<1>2. body \in [min_choices : Nat, max_choices : Nat, is_required : BOOLEAN]
  BY BodiesAssumption
<1>3. Administered(b) /\ ItemHere(i, b)
  BY <1>1, ManagedAreAdministered, PartsOfIInv, FoundIsHere
<1>4. row \in GroupRow
  BY <1>2 DEF GroupRow
<1>5. LoadedModifier(x)
  BY <1>3, <1>4 DEF LoadedModifier
<1>6. EditOK(x)
  BY <1>3, <1>5 DEF EditOK, LoadedCategory, LoadedItem, LoadedStation
<1> QED
  BY <1>1, <1>6, LoadStep

LEMMA CreateModifierOptionSafe ==
    ASSUME IInv, NEW e \in Edits, NEW b \in Managed, NEW g \in GroupIds, NEW o \in OptionIds,
           CreateModifierOption(e, b, g, o)
    PROVE  IInv' /\ OnlyAdministeredChange
<1>1. PICK body \in NewOptions :
         /\ GroupIn(g, b)
         /\ Load(e, "MODIFIER_OPTION_CREATED", b, o,
                 [group_id |-> g, is_available |-> body.is_available,
                  price_delta |-> body.price_delta], "nothing")
  BY DEF CreateModifierOption
<1> DEFINE row == [group_id |-> g, is_available |-> body.is_available,
                   price_delta |-> body.price_delta]
           x == [pc |-> "loaded", op |-> "MODIFIER_OPTION_CREATED", branch |-> b, id |-> o,
                 patch |-> row, tell |-> "nothing"]
<1>2. body \in [is_available : BOOLEAN, price_delta : Deltas]
  BY BodiesAssumption
<1>3. Administered(b) /\ GroupHere(g, b)
  BY <1>1, ManagedAreAdministered, PartsOfIInv, FoundIsHere
<1>4. row \in OptionRow
  BY <1>2 DEF OptionRow
<1>5. LoadedModifier(x)
  BY <1>3, <1>4 DEF LoadedModifier
<1>6. EditOK(x)
  BY <1>3, <1>5 DEF EditOK, LoadedCategory, LoadedItem, LoadedStation
<1> QED
  BY <1>1, <1>6, LoadStep

\* The columns of an option's body, or the switch of one.
LEMMA PatchOption ==
    ASSUME IInv, NEW e \in Edits, NEW b \in Managed, NEW o \in OptionIds, NEW body, NEW tell,
           NEW op \in {"MODIFIER_OPTION_UPDATED", "MODIFIER_OPTION_RESTOCKED",
                       "MODIFIER_OPTION_86_TRIGGERED"},
           OptionPatch(body), OptionIn(o, b), Load(e, op, b, o, Changed(body, option[o]), tell)
    PROVE  IInv' /\ OnlyAdministeredChange
<1>1. Administered(b) /\ OptionHere(o, b)
  BY ManagedAreAdministered, PartsOfIInv, FoundIsHere
<1>2. PICK patch : patch = Changed(body, option[o])
  OBVIOUS
<1> DEFINE x == [pc |-> "loaded", op |-> op, branch |-> b, id |-> o, patch |-> patch,
                 tell |-> tell]
<1>3. OptionPatch(patch)
  BY <1>2, ChangedColumns DEF OptionPatch
<1>4. LoadedModifier(x)
  BY <1>1, <1>3 DEF LoadedModifier
<1>5. EditOK(x)
  BY <1>1, <1>4 DEF EditOK, LoadedCategory, LoadedItem, LoadedStation
<1> QED
  BY <1>2, <1>5, LoadStep

LEMMA UpdateModifierOptionSafe ==
    ASSUME IInv, NEW e \in Edits, NEW b \in Managed, NEW o \in OptionIds,
           UpdateModifierOption(e, b, o)
    PROVE  IInv' /\ OnlyAdministeredChange
<1>1. PICK body \in OptionBodies :
         /\ OptionIn(o, b)
         /\ Load(e, "MODIFIER_OPTION_UPDATED", b, o, Changed(body, option[o]),
                 IF "is_available" \in DOMAIN body THEN "stored" ELSE "nothing")
  BY DEF UpdateModifierOption
<1>2. PICK tell : tell = IF "is_available" \in DOMAIN body THEN "stored" ELSE "nothing"
  OBVIOUS
<1>3. OptionPatch(body)
  BY BodiesAssumption
<1> QED
  BY <1>1, <1>2, <1>3, PatchOption

LEMMA SetOptionAvailabilitySafe ==
    ASSUME IInv, NEW e \in Edits, NEW b \in Managed, NEW o \in OptionIds, NEW flag \in BOOLEAN,
           SetOptionAvailability(e, b, o, flag)
    PROVE  IInv' /\ OnlyAdministeredChange
<1>1. PICK body, tell : body = [is_available |-> flag] /\ tell = Availability(flag)
  OBVIOUS
<1>2. OptionPatch(body)
  BY <1>1 DEF OptionPatch
<1>3. CASE flag
  BY <1>1, <1>2, <1>3, PatchOption DEF SetOptionAvailability
<1>4. CASE ~flag
  BY <1>1, <1>2, <1>4, PatchOption DEF SetOptionAvailability
<1> QED
  BY <1>3, <1>4

LEMMA DeleteModifierSafe ==
    ASSUME IInv, NEW e \in Edits, NEW b \in Managed,
           \/ \E g \in GroupIds : DeleteModifierGroup(e, b, g)
           \/ \E o \in OptionIds : DeleteModifierOption(e, b, o)
    PROVE  IInv' /\ OnlyAdministeredChange
<1>1. Administered(b) /\ RowInv
  BY ManagedAreAdministered, PartsOfIInv
<1>2. ASSUME NEW g \in GroupIds, DeleteModifierGroup(e, b, g)
      PROVE  IInv' /\ OnlyAdministeredChange
  <2> DEFINE x == [pc |-> "loaded", op |-> "MODIFIER_GROUP_DELETED", branch |-> b, id |-> g,
                   patch |-> None, tell |-> "nothing"]
  <2>1. GroupHere(g, b)
    BY <1>1, <1>2, FoundIsHere DEF DeleteModifierGroup
  <2>2. EditOK(x)
    BY <1>1, <2>1 DEF EditOK, LoadedCategory, LoadedItem, LoadedModifier, LoadedStation
  <2> QED
    BY <1>2, <2>2, LoadStep DEF DeleteModifierGroup
<1>3. ASSUME NEW o \in OptionIds, DeleteModifierOption(e, b, o)
      PROVE  IInv' /\ OnlyAdministeredChange
  <2> DEFINE x == [pc |-> "loaded", op |-> "MODIFIER_OPTION_DELETED", branch |-> b, id |-> o,
                   patch |-> None, tell |-> "nothing"]
  <2>1. OptionHere(o, b)
    BY <1>1, <1>3, FoundIsHere DEF DeleteModifierOption
  <2>2. EditOK(x)
    BY <1>1, <2>1 DEF EditOK, LoadedCategory, LoadedItem, LoadedModifier, LoadedStation
  <2> QED
    BY <1>3, <2>2, LoadStep DEF DeleteModifierOption
<1> QED
  BY <1>2, <1>3

LEMMA MenuBeginSafe ==
    ASSUME IInv, NEW e \in Edits, MenuBegin(e)
    PROVE  IInv' /\ OnlyAdministeredChange
BY CreateCategorySafe, UpdateCategorySafe, DeleteCategorySafe, CreateItemSafe, UpdateItemSafe,
   SetItemAvailabilitySafe, DeleteItemSafe, CreateModifierGroupSafe, CreateModifierOptionSafe,
   UpdateModifierOptionSafe, SetOptionAvailabilitySafe, DeleteModifierSafe DEF MenuBegin

LEMMA StationBeginSafe ==
    ASSUME IInv, NEW e \in Edits, StationBegin(e)
    PROVE  IInv' /\ OnlyAdministeredChange
<1>1. PICK b \in Equipped :
         \/ ListStations(e, b)
         \/ \E code \in NewCodes : CreateStation(e, b, code)
         \/ \E s \in StationIds : \/ \E active \in BOOLEAN : UpdateStation(e, b, s, active)
                                  \/ \E soft \in BOOLEAN : DeleteStation(e, b, s, soft)
  BY DEF StationBegin
<1>2. Administered(b) /\ RowInv
  BY ManagedAreAdministered, PartsOfIInv
<1>3. ASSUME NEW op, NEW code, LookForDefaults(e, b, op, code),
             op = "STATION_CREATED" => code \in Codes
      PROVE  IInv' /\ OnlyAdministeredChange
  <2>1. PICK pc \in {"seeding", "seeded"}, codes \in SUBSET Codes :
           edit' = [edit EXCEPT ![e] = [pc |-> pc, op |-> op, branch |-> b, id |-> code,
                                        patch |-> codes, tell |-> "nothing"]]
    BY <1>3, CodesAssumption DEF LookForDefaults, MissingDefaults, DEFAULT_STATIONS_CONFIG
  <2> DEFINE x == [pc |-> pc, op |-> op, branch |-> b, id |-> code, patch |-> codes,
                   tell |-> "nothing"]
  <2>2. EditOK(x)'
    BY <1>2, <1>3 DEF EditOK, Administered
  <2>3. RowInv' /\ Kept /\ OnlyAdministeredChange /\ UNCHANGED <<cart, audit, kds>>
    BY <1>2, <1>3, QuietStep DEF LookForDefaults, effects
  <2>4. edit' = [edit EXCEPT ![e] = x]
    BY <2>1
  <2> HIDE DEF x
  <2> QED
    BY <2>2, <2>3, <2>4, EditStep
<1>4. ASSUME NEW s \in StationIds, NEW flag \in BOOLEAN, StationIn(s, b),
             Load(e, "STATION_UPDATED", b, s, Changed([is_active |-> flag], station[s]),
                  "nothing")
      PROVE  IInv' /\ OnlyAdministeredChange
  <2>1. PICK patch : patch = Changed([is_active |-> flag], station[s])
    OBVIOUS
  <2> DEFINE x == [pc |-> "loaded", op |-> "STATION_UPDATED", branch |-> b, id |-> s,
                   patch |-> patch, tell |-> "nothing"]
  <2>2. "is_active" \in DOMAIN patch => patch.is_active = flag
    BY <2>1 DEF Changed
  <2>3. EditOK(x)
    BY <1>2, <1>4, <2>2, FoundIsHere DEF EditOK, LoadedCategory, LoadedItem, LoadedModifier,
                                         LoadedStation
  <2> QED
    BY <1>4, <2>1, <2>3, LoadStep
<1>5. ASSUME NEW s \in StationIds, StationIn(s, b),
             Load(e, "STATION_DELETED", b, s, None, "nothing")
      PROVE  IInv' /\ OnlyAdministeredChange
  <2> DEFINE x == [pc |-> "loaded", op |-> "STATION_DELETED", branch |-> b, id |-> s,
                   patch |-> None, tell |-> "nothing"]
  <2>1. EditOK(x)
    BY <1>2, <1>5, FoundIsHere DEF EditOK, LoadedCategory, LoadedItem, LoadedModifier,
                                   LoadedStation
  <2> QED
    BY <1>5, <2>1, LoadStep
<1>6. CASE ListStations(e, b)
  BY <1>3, <1>6 DEF ListStations
<1>7. CASE \E code \in NewCodes : CreateStation(e, b, code)
  BY <1>3, <1>7, BodiesAssumption DEF CreateStation
<1>8. CASE \E s \in StationIds, active \in BOOLEAN : UpdateStation(e, b, s, active)
  BY <1>4, <1>8 DEF UpdateStation
<1>9. CASE \E s \in StationIds, soft \in BOOLEAN : DeleteStation(e, b, s, soft)
  BY <1>4, <1>5, <1>9 DEF DeleteStation
<1> QED
  BY <1>1, <1>6, <1>7, <1>8, <1>9
-----------------------------------------------------------------------------
(* Edits of the menu commit *)

\* A request whose commit settled what it was for.
LEMMA CommitStep ==
    ASSUME IInv, RowInv', Kept, NEW e \in Edits, NEW pc \in {"committed", "refreshed"},
           NEW op, NEW b, NEW id, NEW tell, Administered(b), Settled(op, id)',
           edit[e].op = op, edit[e].branch = b, edit[e].id = id,
           Advance(e, pc, tell), UNCHANGED <<cart, audit, kds>>
    PROVE  IInv'
<1> DEFINE x == [pc |-> pc, op |-> op, branch |-> b, id |-> id, patch |-> None, tell |-> tell]
<1>1. EditOK(x)'
  BY DEF EditOK, Administered
<1>2. edit' = [edit EXCEPT ![e] = x]
  <2>1. DOMAIN edit = Edits
    BY DEF IInv, TypeOK
  <2> QED
    BY <2>1 DEF Advance
<1> HIDE DEF x
<1> QED
  BY <1>1, <1>2, EditStep

LEMMA LoadedRequest ==
    ASSUME IInv, NEW e \in Edits, NEW ops, Loaded(e, ops)
    PROVE  \E x : /\ edit[e] = x /\ x.pc = "loaded" /\ x.op \in ops /\ Administered(x.branch)
                  /\ LoadedCategory(x) /\ LoadedItem(x) /\ LoadedModifier(x) /\ LoadedStation(x)
                  /\ x.branch \in Branches /\ RowInv
BY PartsOfIInv, AccessAssumption DEF EditsOK, EditOK, Loaded, Administered

LEMMA InsertCategorySafe ==
    ASSUME IInv, NEW e \in Edits, InsertCategory(e)
    PROVE  IInv' /\ OnlyAdministeredChange
<1>1. PICK x : /\ edit[e] = x /\ x.op = "CATEGORY_CREATED" /\ Administered(x.branch)
               /\ LoadedCategory(x) /\ RowInv
  BY LoadedRequest DEF InsertCategory
<1>2. PICK c \in CategoryIds, row \in CategoryRow : c = x.id /\ row = x.patch
  BY <1>1 DEF LoadedCategory
<1>3. /\ row.branch_id = x.branch /\ NamesStation(row.station_id, x.branch)
      /\ c \notin used /\ StationExists(row.station_id)
      /\ category' = [category EXCEPT ![c] = row] /\ used' = used \cup {c}
      /\ UNCHANGED <<station, item, group, option, line, cart, audit, kds>>
  BY <1>1, <1>2 DEF LoadedCategory, InsertCategory, Fresh, effects
<1>4. row.station_id # None => StationIn(row.station_id, row.branch_id)
  BY <1>3 DEF NamesStation, StationHere, StationExists
<1>5. RowInv' /\ Kept /\ OnlyAdministeredChange
  BY <1>1, <1>3, <1>4, PutCategory
<1>6. Settled("CATEGORY_CREATED", c)'
  BY <1>3 DEF Settled, Creations, Deletions
<1>7. PICK tell : Advance(e, "committed", tell)
  BY DEF InsertCategory, Step
<1> QED
  BY <1>1, <1>2, <1>3, <1>5, <1>6, <1>7, CommitStep

LEMMA WriteCategorySafe ==
    ASSUME IInv, NEW e \in Edits, WriteCategory(e)
    PROVE  IInv' /\ OnlyAdministeredChange
<1>1. PICK x : /\ edit[e] = x /\ x.op \in {"CATEGORY_UPDATED", "CATEGORY_DEACTIVATED"}
               /\ Administered(x.branch) /\ LoadedCategory(x) /\ RowInv
  BY LoadedRequest DEF WriteCategory
<1>2. PICK c, patch : /\ c \in CategoryIds /\ c = x.id /\ patch = x.patch /\ CategoryPatch(patch)
                                      /\ CategoryHere(c, x.branch)
  BY <1>1 DEF LoadedCategory
<1>3. /\ category[c] # None
      /\ StationExists(Written(patch, "station_id", None))
      /\ category' = [category EXCEPT ![c] = PatchedCategory(@, patch)]
      /\ UNCHANGED <<station, item, group, option, line, used, cart, audit, kds>>
  BY <1>1, <1>2 DEF WriteCategory, effects
<1>4. CategoryIn(c, x.branch) /\ category[c] \in CategoryRow
  BY <1>1, <1>2, <1>3 DEF CategoryHere, RowInv, RowsOK
<1>5. PICK row : row = PatchedCategory(category[c], patch)
  OBVIOUS
<1>6. row \in CategoryRow /\ row.branch_id = x.branch
  BY <1>2, <1>4, <1>5 DEF PatchedCategory, Written, CategoryPatch, CategoryRow, CategoryIn
<1>7. row.station_id # None => StationIn(row.station_id, x.branch)
  <2>1. CASE "station_id" \in DOMAIN patch
    <3>1. row.station_id = patch.station_id /\ StationHere(patch.station_id, x.branch)
      BY <1>1, <1>2, <1>5, <2>1 DEF PatchedCategory, Written, LoadedCategory
    <3> QED
      BY <1>3, <2>1, <3>1 DEF StationHere, StationExists, Written
  <2>2. CASE "station_id" \notin DOMAIN patch
    <3>1. row.station_id = category[c].station_id
      BY <1>5, <2>2 DEF PatchedCategory, Written
    <3> QED
      BY <1>1, <1>2, <1>4, <3>1 DEF RowInv, OwnBranch, CategoryIn
  <2> QED
    BY <2>1, <2>2
<1>8. category' = [category EXCEPT ![c] = row]
  BY <1>3, <1>5
<1>9. RowInv' /\ Kept /\ OnlyAdministeredChange
  BY <1>1, <1>2, <1>3, <1>4, <1>6, <1>7, <1>8, PutCategory
<1>10. Settled(x.op, c)'
  BY <1>1 DEF Settled, Creations, Deletions
<1>11. PICK pc, tell : pc \in {"committed", "refreshed"} /\ Advance(e, pc, tell)
  BY DEF WriteCategory, Step
<1> QED
  BY <1>1, <1>2, <1>3, <1>9, <1>10, <1>11, CommitStep

LEMMA RemoveCategorySafe ==
    ASSUME IInv, NEW e \in Edits, RemoveCategory(e)
    PROVE  IInv' /\ OnlyAdministeredChange
<1>1. PICK x : /\ edit[e] = x /\ x.op = "CATEGORY_DELETED" /\ Administered(x.branch)
               /\ LoadedCategory(x) /\ x.branch \in Branches /\ RowInv
  BY LoadedRequest DEF RemoveCategory
<1>2. PICK c \in CategoryIds, b \in Branches : c = x.id /\ b = x.branch /\ CategoryHere(c, b)
  BY <1>1 DEF LoadedCategory
<1>3. PICK I, G, O : I = ItemsOfCategory(c) /\ G = GroupsOf(I) /\ O = OptionsOf(G)
  OBVIOUS
<1>4. /\ category' = Without(category, {c}) /\ item' = Without(item, I)
      /\ group' = Without(group, G) /\ option' = Without(option, O)
      /\ \A l \in LineIds : line[l] # None => line[l].item_id \notin I
      /\ UNCHANGED <<station, line, used, cart, audit, kds>>
  BY <1>1, <1>2, <1>3 DEF RemoveCategory, CascadeItems, CascadeGroups, Ordered, effects
<1>5. /\ \A d \in CategoryIds \cap {c} : category[d] # None => CategoryIn(d, b)
      /\ \A i \in ItemIds \cap I : item[i] # None => ItemIn(i, b)
      /\ \A i \in ItemIds : item[i] # None /\ item[i].category_id \in {c} => i \in I
  BY <1>1, <1>2, <1>3 DEF CategoryHere, ItemsOfCategory, ItemIn, RowInv, ReferencesHold
<1>6. /\ \A g \in GroupIds \cap G : group[g] # None => GroupIn(g, b)
      /\ \A g \in GroupIds : group[g] # None /\ group[g].item_id \in I => g \in G
  BY <1>1, <1>3, <1>5 DEF GroupsOf, GroupIn, RowInv, RowsOK, ReferencesHold, GroupRow
<1>7. /\ \A o \in OptionIds \cap O : option[o] # None => OptionIn(o, b)
      /\ \A o \in OptionIds : option[o] # None /\ option[o].group_id \in G => o \in O
  BY <1>1, <1>3, <1>6 DEF OptionsOf, OptionIn, RowInv, RowsOK, ReferencesHold, OptionRow
<1>8. RowInv' /\ Kept /\ OnlyAdministeredChange
  BY <1>1, <1>2, <1>4, <1>5, <1>6, <1>7, Cascade
<1>9. category'[c] = None /\ c \in used'
  BY <1>1, <1>2, <1>4 DEF Without, CategoryHere, RowInv, RowsOK
<1>10. Settled("CATEGORY_DELETED", c)'
  BY <1>9, IdsAssumption DEF Settled, Present, Creations, Deletions
<1>11. PICK tell : Advance(e, "refreshed", tell)
  BY DEF RemoveCategory, Step
<1> QED
  BY <1>1, <1>2, <1>4, <1>8, <1>10, <1>11, CommitStep
LEMMA InsertItemSafe ==
    ASSUME IInv, NEW e \in Edits, InsertItem(e)
    PROVE  IInv' /\ OnlyAdministeredChange
<1>1. PICK x : /\ edit[e] = x /\ x.op = "ITEM_CREATED" /\ Administered(x.branch)
               /\ LoadedItem(x) /\ x.branch \in Branches /\ RowInv
  BY LoadedRequest DEF InsertItem
<1>2. PICK i \in ItemIds, row \in ItemRow, b \in Branches :
         i = x.id /\ row = x.patch /\ b = x.branch
  BY <1>1 DEF LoadedItem
<1>3. /\ CategoryHere(row.category_id, b) /\ NamesStation(row.station_id, b)
      /\ i \notin used /\ StationExists(row.station_id) /\ category[row.category_id] # None
      /\ item' = [item EXCEPT ![i] = row] /\ used' = used \cup {i}
      /\ UNCHANGED <<station, category, group, option, line, cart, audit, kds>>
  BY <1>1, <1>2 DEF LoadedItem, InsertItem, Fresh, effects
<1>4. /\ CategoryIn(row.category_id, b)
      /\ row.station_id # None => StationIn(row.station_id, b)
  BY <1>3 DEF CategoryHere, NamesStation, StationHere, StationExists
<1>5. RowInv' /\ Kept /\ OnlyAdministeredChange
  BY <1>1, <1>2, <1>3, <1>4, PutItem
<1>6. Settled("ITEM_CREATED", i)'
  BY <1>3 DEF Settled, Creations, Deletions
<1>7. PICK tell : Advance(e, "committed", tell)
  BY DEF InsertItem, Step
<1> QED
  BY <1>1, <1>2, <1>3, <1>5, <1>6, <1>7, CommitStep

LEMMA WriteItemSafe ==
    ASSUME IInv, NEW e \in Edits, WriteItem(e)
    PROVE  IInv' /\ OnlyAdministeredChange
<1> DEFINE ops == {"ITEM_UPDATED", "ITEM_RESTOCKED", "ITEM_86_TRIGGERED", "ITEM_DEACTIVATED"}
<1>1. PICK x : /\ edit[e] = x /\ x.op \in ops
               /\ Administered(x.branch) /\ LoadedItem(x) /\ x.branch \in Branches /\ RowInv
  BY LoadedRequest DEF WriteItem
<1>2. PICK i, patch, b : i = x.id /\ patch = x.patch /\ b = x.branch
  OBVIOUS
<1>3. /\ i \in ItemIds /\ b \in Branches /\ ItemPatch(patch) /\ ItemHere(i, b)
      /\ "category_id" \in DOMAIN patch => CategoryHere(patch.category_id, b)
      /\ "station_id" \in DOMAIN patch => StationHere(patch.station_id, b)
  BY <1>1, <1>2 DEF LoadedItem
<1>4. /\ item[i] # None
      /\ category[Written(patch, "category_id", item[i].category_id)] # None
      /\ StationExists(Written(patch, "station_id", None))
      /\ item' = [item EXCEPT ![i] = PatchedItem(@, patch)]
      /\ UNCHANGED <<station, category, group, option, line, used, cart, audit, kds>>
  BY <1>1, <1>2, <1>3 DEF WriteItem, effects
<1>5. ItemIn(i, b) /\ item[i] \in ItemRow
  BY <1>1, <1>2, <1>3, <1>4 DEF ItemHere, RowInv, RowsOK
<1>6. PICK row : row = PatchedItem(item[i], patch)
  OBVIOUS
<1>7. row \in ItemRow
  BY <1>2, <1>3, <1>5, <1>6 DEF PatchedItem, Written, ItemPatch, ItemRow
<1>8. CategoryIn(row.category_id, b)
  BY <1>2, <1>3, <1>4, <1>5, <1>6 DEF PatchedItem, Written, CategoryHere, ItemIn
<1>9. row.station_id # None => StationIn(row.station_id, b)
  <2>1. CASE "station_id" \in DOMAIN patch
    <3>1. row.station_id = patch.station_id
      BY <1>6, <2>1 DEF PatchedItem, Written
    <3> QED
      BY <1>2, <1>3, <1>4, <2>1, <3>1 DEF StationHere, StationExists, Written
  <2>2. CASE "station_id" \notin DOMAIN patch
    <3>1. row.station_id = item[i].station_id
      BY <1>6, <2>2 DEF PatchedItem, Written
    <3>2. category[item[i].category_id].branch_id = b
      BY <1>5 DEF ItemIn, CategoryIn
    <3>3. item[i].station_id # None
             => StationIn(item[i].station_id, category[item[i].category_id].branch_id)
      BY <1>1, <1>3, <1>4 DEF RowInv, OwnBranch
    <3> QED
      BY <3>1, <3>2, <3>3 DEF StationIn
  <2> QED
    BY <2>1, <2>2
<1>10. item' = [item EXCEPT ![i] = row]
  BY <1>4, <1>6
<1>11. RowInv' /\ Kept /\ OnlyAdministeredChange
  BY <1>1, <1>2, <1>3, <1>4, <1>5, <1>7, <1>8, <1>9, <1>10, PutItem
<1>12. Settled(x.op, i)'
  BY <1>1 DEF Settled, Creations, Deletions
<1>13. PICK pc, tell : pc \in {"committed", "refreshed"} /\ Advance(e, pc, tell)
  BY DEF WriteItem, Step
<1> QED
  BY <1>1, <1>2, <1>3, <1>4, <1>11, <1>12, <1>13, CommitStep

LEMMA RemoveItemSafe ==
    ASSUME IInv, NEW e \in Edits, RemoveItem(e)
    PROVE  IInv' /\ OnlyAdministeredChange
<1>1. PICK x : /\ edit[e] = x /\ x.op = "ITEM_DELETED" /\ Administered(x.branch)
               /\ LoadedItem(x) /\ x.branch \in Branches /\ RowInv
  BY LoadedRequest DEF RemoveItem
<1>2. PICK i \in ItemIds, b \in Branches : i = x.id /\ b = x.branch /\ ItemHere(i, b)
  BY <1>1 DEF LoadedItem
<1>3. PICK G, O : G = GroupsOf({i}) /\ O = OptionsOf(G)
  OBVIOUS
<1>4. /\ category' = Without(category, {}) /\ item' = Without(item, {i})
      /\ group' = Without(group, G) /\ option' = Without(option, O)
      /\ \A l \in LineIds : line[l] # None => line[l].item_id \notin {i}
      /\ UNCHANGED <<station, line, used, cart, audit, kds>>
  BY <1>1, <1>2, <1>3 DEF RemoveItem, CascadeItems, CascadeGroups, Ordered, Without, effects,
                          RowInv, RowsOK
<1>5. \A j \in ItemIds \cap {i} : item[j] # None => ItemIn(j, b)
  BY <1>2 DEF ItemHere
<1>6. /\ \A g \in GroupIds \cap G : group[g] # None => GroupIn(g, b)
      /\ \A g \in GroupIds : group[g] # None /\ group[g].item_id \in {i} => g \in G
  BY <1>1, <1>3, <1>5 DEF GroupsOf, GroupIn, RowInv, RowsOK, ReferencesHold, GroupRow
<1>7. /\ \A o \in OptionIds \cap O : option[o] # None => OptionIn(o, b)
      /\ \A o \in OptionIds : option[o] # None /\ option[o].group_id \in G => o \in O
  BY <1>1, <1>3, <1>6 DEF OptionsOf, OptionIn, RowInv, RowsOK, ReferencesHold, OptionRow
<1>8. RowInv' /\ Kept /\ OnlyAdministeredChange
  BY <1>1, <1>2, <1>4, <1>5, <1>6, <1>7, Cascade
<1>9. item'[i] = None /\ i \in used'
  BY <1>1, <1>2, <1>4 DEF Without, ItemHere, RowInv, RowsOK
<1>10. Settled("ITEM_DELETED", i)'
  BY <1>9, IdsAssumption DEF Settled, Present, Creations, Deletions
<1>11. PICK tell : Advance(e, "refreshed", tell)
  BY DEF RemoveItem, Step
<1> QED
  BY <1>1, <1>2, <1>4, <1>8, <1>10, <1>11, CommitStep
LEMMA InsertGroupSafe ==
    ASSUME IInv, NEW e \in Edits, InsertGroup(e)
    PROVE  IInv' /\ OnlyAdministeredChange
<1>1. PICK x : /\ edit[e] = x /\ x.op = "MODIFIER_GROUP_CREATED" /\ Administered(x.branch)
               /\ LoadedModifier(x) /\ x.branch \in Branches /\ RowInv
  BY LoadedRequest DEF InsertGroup
<1>2. PICK g \in GroupIds, row \in GroupRow, b \in Branches :
         g = x.id /\ row = x.patch /\ b = x.branch
  BY <1>1 DEF LoadedModifier
<1>3. /\ ItemHere(row.item_id, b) /\ g \notin used /\ item[row.item_id] # None
      /\ group' = [group EXCEPT ![g] = row] /\ used' = used \cup {g}
      /\ UNCHANGED <<station, category, item, option, line, cart, audit, kds>>
  BY <1>1, <1>2 DEF LoadedModifier, InsertGroup, Fresh, effects
<1>4. RowInv' /\ Kept /\ OnlyAdministeredChange
  BY <1>1, <1>2, <1>3, PutGroup DEF ItemHere
<1>5. Settled("MODIFIER_GROUP_CREATED", g)'
  BY <1>3 DEF Settled, Creations, Deletions
<1>6. PICK tell : Advance(e, "committed", tell)
  BY DEF InsertGroup, Step
<1> QED
  BY <1>1, <1>2, <1>3, <1>4, <1>5, <1>6, CommitStep

LEMMA InsertOptionSafe ==
    ASSUME IInv, NEW e \in Edits, InsertOption(e)
    PROVE  IInv' /\ OnlyAdministeredChange
<1>1. PICK x : /\ edit[e] = x /\ x.op = "MODIFIER_OPTION_CREATED" /\ Administered(x.branch)
               /\ LoadedModifier(x) /\ x.branch \in Branches /\ RowInv
  BY LoadedRequest DEF InsertOption
<1>2. PICK o \in OptionIds, row \in OptionRow, b \in Branches :
         o = x.id /\ row = x.patch /\ b = x.branch
  BY <1>1 DEF LoadedModifier
<1>3. /\ GroupHere(row.group_id, b) /\ o \notin used /\ group[row.group_id] # None
      /\ option' = [option EXCEPT ![o] = row] /\ used' = used \cup {o}
      /\ UNCHANGED <<station, category, item, group, line, cart, audit, kds>>
  BY <1>1, <1>2 DEF LoadedModifier, InsertOption, Fresh, effects
<1>4. RowInv' /\ Kept /\ OnlyAdministeredChange
  BY <1>1, <1>2, <1>3, PutOption DEF GroupHere
<1>5. Settled("MODIFIER_OPTION_CREATED", o)'
  BY <1>3 DEF Settled, Creations, Deletions
<1>6. PICK tell : Advance(e, "committed", tell)
  BY DEF InsertOption, Step
<1> QED
  BY <1>1, <1>2, <1>3, <1>4, <1>5, <1>6, CommitStep

LEMMA WriteOptionSafe ==
    ASSUME IInv, NEW e \in Edits, WriteOption(e)
    PROVE  IInv' /\ OnlyAdministeredChange
<1>1. PICK x : /\ edit[e] = x
               /\ x.op \in {"MODIFIER_OPTION_UPDATED", "MODIFIER_OPTION_RESTOCKED",
                            "MODIFIER_OPTION_86_TRIGGERED"}
               /\ Administered(x.branch) /\ LoadedModifier(x) /\ x.branch \in Branches /\ RowInv
  BY LoadedRequest DEF WriteOption
<1>2. PICK o, patch, b : o = x.id /\ patch = x.patch /\ b = x.branch
  OBVIOUS
<1>3. o \in OptionIds /\ b \in Branches /\ OptionPatch(patch) /\ OptionHere(o, b)
  BY <1>1, <1>2 DEF LoadedModifier
<1>4. /\ option[o] # None /\ option' = [option EXCEPT ![o] = PatchedOption(@, patch)]
      /\ UNCHANGED <<station, category, item, group, line, used, cart, audit, kds>>
  BY <1>1, <1>2 DEF WriteOption, effects
<1>5. OptionIn(o, b) /\ option[o] \in OptionRow
  BY <1>1, <1>3, <1>4 DEF OptionHere, RowInv, RowsOK
<1>6. PICK row : row = PatchedOption(option[o], patch)
  OBVIOUS
<1>7. row \in OptionRow /\ row.group_id = option[o].group_id
  BY <1>3, <1>5, <1>6 DEF PatchedOption, Written, OptionPatch, OptionRow
<1>8. GroupIn(row.group_id, b)
  BY <1>5, <1>7 DEF OptionIn
<1>9. option' = [option EXCEPT ![o] = row]
  BY <1>4, <1>6
<1>10. RowInv' /\ Kept /\ OnlyAdministeredChange
  BY <1>1, <1>2, <1>3, <1>4, <1>5, <1>7, <1>8, <1>9, PutOption
<1>11. Settled(x.op, o)'
  BY <1>1 DEF Settled, Creations, Deletions
<1>12. PICK tell : Advance(e, "committed", tell)
  BY DEF WriteOption, Step
<1> QED
  BY <1>1, <1>2, <1>3, <1>4, <1>10, <1>11, <1>12, CommitStep

LEMMA RemoveGroupSafe ==
    ASSUME IInv, NEW e \in Edits, RemoveGroup(e)
    PROVE  IInv' /\ OnlyAdministeredChange
<1>1. PICK x : /\ edit[e] = x /\ x.op = "MODIFIER_GROUP_DELETED" /\ Administered(x.branch)
               /\ LoadedModifier(x) /\ x.branch \in Branches /\ RowInv
  BY LoadedRequest DEF RemoveGroup
<1>2. PICK g \in GroupIds, b \in Branches : g = x.id /\ b = x.branch /\ GroupHere(g, b)
  BY <1>1 DEF LoadedModifier
<1>3. PICK O : O = OptionsOf({g})
  OBVIOUS
<1>4. /\ category' = Without(category, {}) /\ item' = Without(item, {})
      /\ group' = Without(group, {g}) /\ option' = Without(option, O)
      /\ UNCHANGED <<station, line, used, cart, audit, kds>>
  BY <1>1, <1>2, <1>3 DEF RemoveGroup, CascadeGroups, Without, effects, RowInv, RowsOK
<1>5. \A h \in GroupIds \cap {g} : group[h] # None => GroupIn(h, b)
  BY <1>2 DEF GroupHere
<1>6. /\ \A o \in OptionIds \cap O : option[o] # None => OptionIn(o, b)
      /\ \A o \in OptionIds : option[o] # None /\ option[o].group_id \in {g} => o \in O
  BY <1>1, <1>3, <1>5 DEF OptionsOf, OptionIn, RowInv, RowsOK, ReferencesHold, OptionRow
<1>7. RowInv' /\ Kept /\ OnlyAdministeredChange
  BY <1>1, <1>2, <1>4, <1>5, <1>6, Cascade
<1>8. group'[g] = None /\ g \in used'
  BY <1>1, <1>2, <1>4 DEF Without, GroupHere, RowInv, RowsOK
<1>9. Settled("MODIFIER_GROUP_DELETED", g)'
  BY <1>8, IdsAssumption DEF Settled, Present, Creations, Deletions
<1>10. PICK tell : Advance(e, "refreshed", tell)
  BY DEF RemoveGroup, Step
<1> QED
  BY <1>1, <1>2, <1>4, <1>7, <1>9, <1>10, CommitStep

LEMMA RemoveOptionSafe ==
    ASSUME IInv, NEW e \in Edits, RemoveOption(e)
    PROVE  IInv' /\ OnlyAdministeredChange
<1>1. PICK x : /\ edit[e] = x /\ x.op = "MODIFIER_OPTION_DELETED" /\ Administered(x.branch)
               /\ LoadedModifier(x) /\ x.branch \in Branches /\ RowInv
  BY LoadedRequest DEF RemoveOption
<1>2. PICK o \in OptionIds, b \in Branches : o = x.id /\ b = x.branch /\ OptionHere(o, b)
  BY <1>1 DEF LoadedModifier
<1>3. /\ category' = Without(category, {}) /\ item' = Without(item, {})
      /\ group' = Without(group, {}) /\ option' = Without(option, {o})
      /\ UNCHANGED <<station, line, used, cart, audit, kds>>
  BY <1>1, <1>2 DEF RemoveOption, Without, effects, RowInv, RowsOK
<1>4. \A p \in OptionIds \cap {o} : option[p] # None => OptionIn(p, b)
  BY <1>2 DEF OptionHere
<1>5. RowInv' /\ Kept /\ OnlyAdministeredChange
  BY <1>1, <1>2, <1>3, <1>4, Cascade
<1>6. option'[o] = None /\ o \in used'
  BY <1>1, <1>2, <1>3 DEF Without, OptionHere, RowInv, RowsOK
<1>7. Settled("MODIFIER_OPTION_DELETED", o)'
  BY <1>6, IdsAssumption DEF Settled, Present, Creations, Deletions
<1>8. PICK tell : Advance(e, "refreshed", tell)
  BY DEF RemoveOption, Step
<1> QED
  BY <1>1, <1>2, <1>3, <1>5, <1>7, <1>8, CommitStep

LEMMA MenuCommitSafe ==
    ASSUME IInv, NEW e \in Edits, MenuCommit(e)
    PROVE  IInv' /\ OnlyAdministeredChange
BY InsertCategorySafe, WriteCategorySafe, RemoveCategorySafe, InsertItemSafe, WriteItemSafe,
   RemoveItemSafe, InsertGroupSafe, RemoveGroupSafe, InsertOptionSafe, WriteOptionSafe,
   RemoveOptionSafe DEF MenuCommit
\* What a request that has committed reports.
LEMMA ReportSafe ==
    ASSUME IInv, NEW e \in Edits, Refresh(e) \/ Broadcast(e) \/ BroadcastFails(e)
    PROVE  IInv' /\ OnlyAdministeredChange
<1>1. /\ edit[e].pc \in {"committed", "refreshed"}
      /\ \E tell : Advance(e, "refreshed", tell)
      /\ UNCHANGED <<rows, used, cart, audit, kds>>
  BY DEF Refresh, Broadcast, BroadcastFails, effects
<1>2. RowInv /\ EditsOK
  BY PartsOfIInv
<1>3. RowInv' /\ Kept /\ OnlyAdministeredChange
  BY <1>1, <1>2, QuietStep
<1>4. PICK op, b, id : edit[e].op = op /\ edit[e].branch = b /\ edit[e].id = id
  OBVIOUS
<1>5. Administered(b) /\ Settled(op, id)
  BY <1>1, <1>2, <1>4 DEF EditsOK, EditOK
<1>6. Settled(op, id)'
  BY <1>3, <1>5 DEF Kept
<1>7. PICK tell : Advance(e, "refreshed", tell)
  BY <1>1
<1> QED
  BY <1>1, <1>3, <1>4, <1>5, <1>6, <1>7, CommitStep

\* A request that answers, or dies, having written nothing but perhaps an audit row.
LEMMA AnswerSafe ==
    ASSUME IInv, NEW e \in Edits, Respond(e), UNCHANGED <<rows, used, cart, kds>>,
           \/ audit' = audit
           \/ edit[e].pc = "refreshed" /\ audit' = audit \cup {<<edit[e].op, edit[e].id>>}
    PROVE  IInv' /\ OnlyAdministeredChange
<1> DEFINE x == [pc |-> "done", op |-> "none", branch |-> None, id |-> None,
                 patch |-> None, tell |-> "nothing"]
<1>1. RowInv /\ EditsOK /\ CartsOK /\ AuditOK /\ TicketsOK
  BY PartsOfIInv
<1>2. RowInv' /\ Kept /\ OnlyAdministeredChange
  BY <1>1, QuietStep
<1>3. AuditOK'
  <2>1. CASE audit' = audit
    BY <1>1, <1>2, <2>1, AuditStays
  <2>2. CASE edit[e].pc = "refreshed" /\ audit' = audit \cup {<<edit[e].op, edit[e].id>>}
    <3>1. PICK op, id : op = edit[e].op /\ id = edit[e].id
      OBVIOUS
    <3>2. Settled(op, id)
      BY <1>1, <2>2, <3>1 DEF EditsOK, EditOK
    <3>3. Settled(op, id)' /\ \A entry \in audit : Settled(entry[1], entry[2])'
      BY <1>1, <1>2, <3>2 DEF Kept, AuditOK
    <3>4. audit' = audit \cup {<<op, id>>}
      BY <2>2, <3>1
    <3> QED
      BY <3>3, <3>4 DEF AuditOK
  <2> QED
    BY <2>1, <2>2
<1>4. EditOK(x)'
  BY DEF EditOK
<1>5. edit' = [edit EXCEPT ![e] = x]
  BY DEF Respond
<1> HIDE DEF x
<1>6. EditsOK'
  BY <1>1, <1>2, <1>4, <1>5, EditMoves
<1>7. CartsOK' /\ TicketsOK'
  BY <1>1, <1>2, CartsStay, TicketsStay
<1> QED
  BY <1>2, <1>3, <1>6, <1>7, PartsOfIInvPrimed

LEMMA MenuAfterSafe ==
    ASSUME IInv, NEW e \in Edits, MenuAfter(e) \/ MenuFailure(e) \/ AbortEdit(e)
    PROVE  IInv' /\ OnlyAdministeredChange
<1>1. CASE Refresh(e) \/ Broadcast(e) \/ BroadcastFails(e)
  BY <1>1, ReportSafe
<1>2. CASE AuditLog(e)
  BY <1>2, AnswerSafe DEF AuditLog
<1>3. CASE AuditFails(e)
  BY <1>3, AnswerSafe DEF AuditFails, effects
<1>4. CASE AbortEdit(e)
  BY <1>4, AnswerSafe DEF AbortEdit, effects
<1> QED
  BY <1>1, <1>2, <1>3, <1>4 DEF MenuAfter, MenuFailure

-----------------------------------------------------------------------------
(* Edits of the stations *)

LEMMA SeedDefaultsSafe ==
    ASSUME IInv, NEW e \in Edits, SeedDefaults(e)
    PROVE  IInv' /\ OnlyAdministeredChange
<1>1. RowInv /\ EditsOK
  BY PartsOfIInv
<1>2. PICK x : x = edit[e] /\ EditOK(x) /\ x.pc = "seeding"
  BY <1>1 DEF EditsOK, SeedDefaults
<1>3. PICK b \in Branches, codes \in SUBSET Codes : b = x.branch /\ codes = x.patch
  BY <1>2, AccessAssumption DEF EditOK, Administered
<1>4. Administered(b)
  BY <1>2, <1>3 DEF SeedDefaults, EditOK
<1>5. PICK id \in [codes -> Fresh(StationIds)] :
         /\ \A c, d \in codes : id[c] = id[d] => c = d
         /\ station' = [s \in StationIds |->
                           IF \E code \in codes : id[code] = s
                           THEN NewStation(b, CHOOSE code \in codes : id[code] = s)
                           ELSE station[s]]
         /\ used' = used \cup {id[code] : code \in codes}
  BY <1>2, <1>3 DEF SeedDefaults
<1>6. UNCHANGED <<category, item, group, option, line, cart, audit, kds>>
  BY DEF SeedDefaults, effects
<1>7. PICK new : new = {id[code] : code \in codes}
  OBVIOUS
<1>8. new \in SUBSET StationIds /\ new \cap used = {}
  BY <1>7 DEF Fresh
<1>9. \A s \in new : \E code \in codes : /\ id[code] = s
                                         /\ station'[s] = NewStation(b, code)
  <2> SUFFICES ASSUME NEW s \in new
               PROVE  \E code \in codes : id[code] = s /\ station'[s] = NewStation(b, code)
    OBVIOUS
  <2>1. PICK code \in codes : id[code] = s
    BY <1>7
  <2>2. (CHOOSE c \in codes : id[c] = s) = code
    BY <1>5, <2>1
  <2> QED
    BY <1>5, <1>8, <2>1, <2>2
<1>10. \A code \in codes : /\ NewStation(b, code) \in StationRow
                           /\ NewStation(b, code).branch_id = b
                           /\ NewStation(b, code).code = code
  BY DEF NewStation, StationRow
<1>11. \A s \in StationIds \ new : station'[s] = station[s]
  BY <1>5, <1>7
<1>12. station' \in [StationIds -> StationRow \cup {None}]
  BY <1>1, <1>5, <1>9, <1>10, <1>11 DEF RowInv, RowsOK
<1>13. \A s \in new : station'[s] # None /\ station'[s].branch_id = b
  BY <1>9, <1>10, IdsAssumption
<1>14. RowInv' /\ Kept /\ OnlyAdministeredChange
  <2>1. used' = used \cup new
    BY <1>5, <1>7
  <2> QED
    BY <1>1, <1>3, <1>4, <1>6, <1>8, <1>11, <1>12, <1>13, <2>1, AddStations
<1> DEFINE y == [pc |-> "seeded", op |-> x.op, branch |-> b, id |-> x.id, patch |-> None,
                 tell |-> x.tell]
<1>15. EditOK(y)'
  BY <1>2, <1>4 DEF EditOK, Administered
<1>16. edit' = [edit EXCEPT ![e] = y]
  BY <1>1, <1>2, <1>3 DEF SeedDefaults, Step, Advance, EditsOK
<1> HIDE DEF y
<1> QED
  BY <1>6, <1>14, <1>15, <1>16, EditStep

LEMMA CheckDuplicateSafe ==
    ASSUME IInv, NEW e \in Edits, CheckDuplicate(e)
    PROVE  IInv' /\ OnlyAdministeredChange
<1>1. RowInv /\ EditsOK
  BY PartsOfIInv
<1>2. PICK x : x = edit[e] /\ EditOK(x) /\ x.pc = "seeded" /\ x.op = "STATION_CREATED"
  BY <1>1 DEF EditsOK, CheckDuplicate
<1>3. RowInv' /\ Kept /\ OnlyAdministeredChange
  BY <1>1, QuietStep DEF CheckDuplicate
<1> DEFINE y == [pc |-> "loaded", op |-> x.op, branch |-> x.branch, id |-> x.id,
                 patch |-> None, tell |-> x.tell]
<1>4. EditOK(y)
  BY <1>2 DEF EditOK, LoadedCategory, LoadedItem, LoadedModifier, LoadedStation
<1>5. EditOK(y)'
  BY <1>3, <1>4, KeptEdit
<1>6. /\ edit' = [edit EXCEPT ![e] = y]
      /\ UNCHANGED <<cart, audit, kds>>
  BY <1>1, <1>2 DEF CheckDuplicate, Step, Advance, EditsOK, effects
<1> HIDE DEF y
<1> QED
  BY <1>3, <1>5, <1>6, EditStep

LEMMA InsertStationSafe ==
    ASSUME IInv, NEW e \in Edits, NEW s \in StationIds, NEW active \in BOOLEAN,
           InsertStation(e, s, active)
    PROVE  IInv' /\ OnlyAdministeredChange
<1>1. PICK x : /\ edit[e] = x /\ x.op = "STATION_CREATED" /\ Administered(x.branch)
               /\ LoadedStation(x) /\ x.branch \in Branches /\ RowInv
  BY LoadedRequest DEF InsertStation
<1>2. PICK row : row = [branch_id |-> x.branch, code |-> x.id, is_active |-> active]
  OBVIOUS
<1>3. /\ row \in StationRow /\ row.branch_id = x.branch /\ row.code = x.id /\ row # None
  BY <1>1, <1>2, IdsAssumption DEF LoadedStation, StationRow
<1>4. /\ s \notin used
      /\ station' = [station EXCEPT ![s] = row] /\ used' = used \cup {s}
      /\ UNCHANGED <<category, item, group, option, line, cart, audit, kds>>
  BY <1>1, <1>2 DEF InsertStation, Fresh, effects
<1>5. /\ station' \in [StationIds -> StationRow \cup {None}]
      /\ \A t \in StationIds : station'[t] = IF t = s THEN row ELSE station[t]
  BY <1>1, <1>3, <1>4 DEF RowInv, RowsOK
<1>6. PICK new : new = {s}
  OBVIOUS
<1>7. /\ new \in SUBSET StationIds /\ new \cap used = {} /\ used' = used \cup new
      /\ \A t \in StationIds \ new : station'[t] = station[t]
      /\ \A t \in new : station'[t] # None /\ station'[t].branch_id = x.branch
  BY <1>3, <1>4, <1>5, <1>6
<1>8. RowInv' /\ Kept /\ OnlyAdministeredChange
  BY <1>1, <1>4, <1>5, <1>7, AddStations
<1> QED
  BY <1>4, <1>8, RespondStep DEF InsertStation

LEMMA WriteStationSafe ==
    ASSUME IInv, NEW e \in Edits, WriteStation(e)
    PROVE  IInv' /\ OnlyAdministeredChange
<1>1. PICK x : /\ edit[e] = x /\ x.op = "STATION_UPDATED" /\ Administered(x.branch)
               /\ LoadedStation(x) /\ x.branch \in Branches /\ RowInv
  BY LoadedRequest DEF WriteStation
<1>2. PICK s, b : s = x.id /\ b = x.branch
  OBVIOUS
<1>3. /\ s \in StationIds /\ b \in Branches /\ Administered(b) /\ StationHere(s, b)
      /\ station[s] # None
      /\ UNCHANGED <<category, item, group, option, line, used, cart, audit, kds>>
  BY <1>1, <1>2 DEF WriteStation, LoadedStation, effects
<1>4. station[s] \in StationRow /\ StationIn(s, b)
  BY <1>1, <1>3 DEF StationHere, RowInv, RowsOK
<1>5. PICK active \in BOOLEAN : active = Written(x.patch, "is_active", station[s].is_active)
  BY <1>1, <1>4 DEF LoadedStation, Written, StationRow
<1>6. station' = [station EXCEPT ![s].is_active = active]
  BY <1>1, <1>2, <1>5 DEF WriteStation
<1>7. RowInv' /\ Kept /\ OnlyAdministeredChange
  BY <1>1, <1>3, <1>4, <1>6, PutStation
<1> QED
  BY <1>3, <1>7, RespondStep DEF WriteStation

LEMMA RemoveStationSafe ==
    ASSUME IInv, NEW e \in Edits, RemoveStation(e)
    PROVE  IInv' /\ OnlyAdministeredChange
<1>1. PICK x : /\ edit[e] = x /\ x.op = "STATION_DELETED" /\ Administered(x.branch)
               /\ LoadedStation(x) /\ x.branch \in Branches /\ RowInv
  BY LoadedRequest DEF RemoveStation
<1>2. PICK s, b : s = x.id /\ b = x.branch
  OBVIOUS
<1>3. /\ s \in StationIds /\ b \in Branches /\ Administered(b) /\ StationHere(s, b)
      /\ station' = Without(station, {s}) /\ category' = Unassigned(category, s)
      /\ item' = Unassigned(item, s) /\ line' = Unassigned(line, s)
      /\ UNCHANGED <<group, option, used, cart, audit, kds>>
  BY <1>1, <1>2 DEF RemoveStation, LoadedStation, effects
<1>4. RowInv' /\ Kept /\ OnlyAdministeredChange
  BY <1>1, <1>3, DropStation
<1> QED
  BY <1>3, <1>4, RespondStep DEF RemoveStation

LEMMA StationCommitSafe ==
    ASSUME IInv, NEW e \in Edits, StationCommit(e)
    PROVE  IInv' /\ OnlyAdministeredChange
<1>1. CASE ReadStations(e)
  BY <1>1, AnswerSafe DEF ReadStations, effects
<1> QED
  BY <1>1, SeedDefaultsSafe, CheckDuplicateSafe, InsertStationSafe, WriteStationSafe,
     RemoveStationSafe DEF StationCommit
-----------------------------------------------------------------------------
(* Checkouts, and the kitchen *)

LEMMA CartFacts ==
    ASSUME IInv, NEW g \in Checkouts
    PROVE  /\ cart[g] \in CartRecord /\ CartOK(cart[g])
           /\ RowInv /\ EditsOK /\ CartsOK /\ AuditOK /\ TicketsOK
BY PartsOfIInv DEF CartsOK

\* A checkout that answers: nothing of it is left to go wrong.
LEMMA AnsweredCart ==
    ASSUME CartsOK, Kept, NEW g \in Checkouts, Answer(g)
    PROVE  CartsOK'
<1>1. PICK x : x = [NoCart EXCEPT !.pc = "done"]
  OBVIOUS
<1>2. x \in CartRecord /\ x.pc = "done"
  BY <1>1 DEF NoCart, CartRecord
<1>3. CartOK(x)'
  BY <1>2 DEF CartOK
<1> QED
  BY <1>1, <1>2, <1>3, CartMoves DEF Answer

LEMMA QuietAnswerSafe ==
    ASSUME IInv, NEW g \in Checkouts, Quote(g) \/ AbortCheckout(g)
    PROVE  IInv' /\ OnlyAdministeredChange
<1>1. Answer(g) /\ UNCHANGED <<rows, used, edit, audit, kds>>
  BY DEF Quote, AbortCheckout, effects
<1>2. RowInv' /\ Kept /\ OnlyAdministeredChange
  BY <1>1, CartFacts, QuietStep
<1> QED
  BY <1>1, <1>2, CartFacts, AnsweredCart, EditsStay, AuditStays, TicketsStay,
     PartsOfIInvPrimed

\* What a request may go by of an item's row, as it is or as it was.
RowHere(row, b) == CategoryHere(row.category_id, b) /\ NamesStation(row.station_id, b)

LEMMA FoundRowIsHere ==
    ASSUME IInv, NEW i \in ItemIds, NEW b \in Branches, ItemIn(i, b)
    PROVE  item[i] \in ItemRow /\ ItemHere(i, b) /\ RowHere(item[i], b)
<1>1. RowInv
  BY PartsOfIInv
<1>2. PICK row \in ItemRow : row = item[i]
  BY <1>1 DEF RowInv, RowsOK, ItemIn
<1>3. ItemHere(i, b) /\ CategoryHere(row.category_id, b)
  BY <1>1, <1>2, FoundIsHere DEF ItemIn, ItemRow
<1>4. row.station_id # None => StationIn(row.station_id, b)
  BY <1>1, <1>2 DEF RowInv, OwnBranch, ItemIn, CategoryIn, StationIn
<1>5. NamesStation(row.station_id, b)
  BY <1>1, <1>4, FoundIsHere DEF NamesStation, ItemRow
<1> QED
  BY <1>2, <1>3, <1>5 DEF RowHere

\* The item is on the menu, and its row, however old, is of the branch.
LEMMA TakeItemSafe ==
    ASSUME IInv, NEW g \in Checkouts, NEW b \in Branches, NEW i \in ItemIds,
           NEW row \in ItemRow, RowHere(row, b), TakeItem(g, b, i, row)
    PROVE  IInv' /\ OnlyAdministeredChange
<1>1. PICK chosen \in Selections :
         cart' = [cart EXCEPT ![g] = [NoCart EXCEPT !.pc = "item", !.branch = b, !.item = i,
                                                    !.row = row, !.chosen = chosen]]
  BY DEF TakeItem
<1>2. ItemIn(i, b) /\ UNCHANGED <<rows, used, edit, audit, kds>>
  BY DEF TakeItem, OnMenu, effects
<1>3. PICK x : x = [NoCart EXCEPT !.pc = "item", !.branch = b, !.item = i, !.row = row,
                                  !.chosen = chosen]
  OBVIOUS
<1>4. /\ x \in CartRecord
      /\ x.pc = "item" /\ x.branch = b /\ x.item = i /\ x.row = row
  BY <1>3 DEF NoCart, CartRecord
<1>5. RowInv' /\ Kept /\ OnlyAdministeredChange
  BY <1>2, CartFacts, QuietStep
<1>6. CartOK(x)
  BY <1>2, <1>4, FoundRowIsHere DEF CartOK, RowHere
<1>7. CartOK(x)'
  BY <1>4, <1>5, <1>6, KeptCart
<1>8. cart' = [cart EXCEPT ![g] = x]
  BY <1>1, <1>3
<1> QED
  BY <1>2, <1>4, <1>5, <1>7, <1>8, CartStep

LEMMA CheckoutItemSafe ==
    ASSUME IInv, NEW g \in Checkouts, NEW b \in ActiveBranches, NEW i \in ItemIds,
           CheckoutItem(g, b, i)
    PROVE  IInv' /\ OnlyAdministeredChange
<1>1. b \in Branches /\ ItemIn(i, b) /\ TakeItem(g, b, i, item[i])
  BY AccessAssumption DEF CheckoutItem, TakeItem, OnMenu
<1>2. PICK row \in ItemRow : row = item[i] /\ RowHere(row, b)
  BY <1>1, FoundRowIsHere
<1> QED
  BY <1>1, <1>2, TakeItemSafe

\* The line is in the branch, and so is the item that it orders.
LEMMA ReorderLoadSafe ==
    ASSUME IInv, NEW g \in Checkouts, NEW b \in ActiveBranches, NEW l \in LineIds,
           ReorderLoad(g, b, l)
    PROVE  IInv' /\ OnlyAdministeredChange
<1>1. RowInv /\ b \in Branches
  BY CartFacts, AccessAssumption
<1>2. /\ UNCHANGED <<rows, used, edit, audit, kds>>
      /\ line[l] # None /\ line[l].branch_id = b
  BY DEF ReorderLoad, effects
<1>3. PICK i \in ItemIds : i = line[l].item_id /\ ItemIn(i, b)
  BY <1>1, <1>2 DEF RowInv, RowsOK, LineRow, OwnBranch
<1>4. PICK row \in ItemRow : row = item[i] /\ ItemHere(i, b) /\ RowHere(row, b)
  BY <1>1, <1>3, FoundRowIsHere
<1>5. PICK x : x = [NoCart EXCEPT !.pc = "loaded", !.branch = b, !.item = i, !.row = row]
  OBVIOUS
<1>6. /\ x \in CartRecord
      /\ x.pc = "loaded" /\ x.branch = b /\ x.item = i /\ x.row = row
  BY <1>1, <1>5 DEF NoCart, CartRecord
<1>7. RowInv' /\ Kept /\ OnlyAdministeredChange
  BY <1>1, <1>2, QuietStep
<1>8. CartOK(x)
  BY <1>1, <1>4, <1>6 DEF CartOK, RowHere
<1>9. CartOK(x)'
  BY <1>6, <1>7, <1>8, KeptCart
<1>10. cart' = [cart EXCEPT ![g] = x]
  BY <1>3, <1>4, <1>5 DEF ReorderLoad
<1> QED
  BY <1>2, <1>6, <1>7, <1>9, <1>10, CartStep

LEMMA ReorderItemSafe ==
    ASSUME IInv, NEW g \in Checkouts, ReorderItem(g)
    PROVE  IInv' /\ OnlyAdministeredChange
<1>1. PICK c \in CartRecord : c = cart[g] /\ CartOK(c) /\ c.pc = "loaded"
  BY CartFacts DEF ReorderItem
<1>2. PICK b \in Branches, i \in ItemIds, row \in ItemRow :
         b = c.branch /\ i = c.item /\ row = c.row /\ RowHere(row, b)
  BY <1>1 DEF CartOK, RowHere
<1> QED
  BY <1>1, <1>2, TakeItemSafe DEF ReorderItem

\* An item goes to its own station, or else to its category's, or else to the hot kitchen.
LEMMA StationsAreCodes ==
    ASSUME RowInv, NEW row, NEW parent,
           row.station_id \in StationIds \cup {None},
           row.station \in KitchenStation \cup {None},
           parent.station_id \in StationIds \cup {None},
           parent.station \in KitchenStation \cup {None}
    PROVE  resolve_item_station(row, parent) \in Codes \cup KitchenStation
<1>1. \A s \in StationIds \cup {None} : DynamicCode(s) \in Codes \cup {None}
  BY DEF DynamicCode, RowInv, RowsOK, StationRow
<1>2. "HOT_KITCHEN" \in KitchenStation /\ "HOT_KITCHEN" # None
  BY IdsAssumption DEF KitchenStation
<1> QED
  BY <1>1, <1>2 DEF resolve_item_station, Or

LEMMA CheckoutStationSafe ==
    ASSUME IInv, NEW g \in Checkouts, CheckoutStation(g)
    PROVE  IInv' /\ OnlyAdministeredChange
<1>1. PICK c \in CartRecord : c = cart[g] /\ CartOK(c) /\ c.pc = "item"
  BY CartFacts DEF CheckoutStation
<1>2. RowInv /\ CartsOK
  BY CartFacts
<1>3. RowInv' /\ Kept /\ OnlyAdministeredChange
  BY <1>2, QuietStep DEF CheckoutStation
<1>4. /\ c.branch \in Branches /\ c.item \in ItemIds /\ c.row \in ItemRow
      /\ ItemHere(c.item, c.branch) /\ CategoryHere(c.row.category_id, c.branch)
      /\ NamesStation(c.row.station_id, c.branch)
  BY <1>1 DEF CartOK
<1>5. PICK parent : parent = IF category[c.row.category_id] # None
                             THEN category[c.row.category_id]
                             ELSE [station_id |-> None, station |-> None]
  OBVIOUS
<1>6. /\ parent.station_id \in StationIds \cup {None}
      /\ parent.station \in KitchenStation \cup {None}
      /\ NamesStation(parent.station_id, c.branch)
  <2>1. c.row.category_id \in CategoryIds
    BY <1>4 DEF ItemRow
  <2>2. CASE category[c.row.category_id] # None
    <3>1. parent \in CategoryRow /\ CategoryIn(c.row.category_id, c.branch)
      BY <1>2, <1>4, <1>5, <2>1, <2>2 DEF RowInv, RowsOK, CategoryHere
    <3>2. parent.station_id # None => StationIn(parent.station_id, c.branch)
      BY <1>2, <1>5, <2>1, <2>2, <3>1 DEF RowInv, OwnBranch, CategoryIn
    <3> QED
      BY <1>2, <3>1, <3>2, FoundIsHere DEF NamesStation, CategoryRow
  <2>3. CASE category[c.row.category_id] = None
    BY <1>5, <2>3 DEF NamesStation
  <2> QED
    BY <2>2, <2>3
<1>7. PICK code, s : code = resolve_item_station(c.row, parent)
                     /\ s = Or(c.row.station_id, parent.station_id)
  OBVIOUS
<1>8. code \in Codes \cup KitchenStation
  BY <1>2, <1>4, <1>6, <1>7, StationsAreCodes DEF ItemRow
<1>9. s \in StationIds \cup {None} /\ NamesStation(s, c.branch)
  BY <1>4, <1>6, <1>7 DEF Or, ItemRow
<1>10. PICK x : x = [c EXCEPT !.pc = "routed", !.code = code, !.station_id = s]
  OBVIOUS
<1>11. /\ x \in CartRecord
       /\ x.pc = "routed" /\ x.code = code /\ x.station_id = s
       /\ x.branch = c.branch /\ x.item = c.item /\ x.row = c.row
  BY <1>8, <1>9, <1>10 DEF CartRecord
<1>12. CartOK(x)
  BY <1>4, <1>8, <1>9, <1>11 DEF CartOK
<1>13. CartOK(x)'
  BY <1>3, <1>11, <1>12, KeptCart
<1>14. cart' = [cart EXCEPT ![g] = x] /\ UNCHANGED <<edit, audit, kds>>
  BY <1>1, <1>2, <1>5, <1>7, <1>10 DEF CheckoutStation, effects, CartsOK
<1> QED
  BY <1>3, <1>11, <1>13, <1>14, CartStep

LEMMA CheckoutGroupsSafe ==
    ASSUME IInv, NEW g \in Checkouts, CheckoutGroups(g)
    PROVE  IInv' /\ OnlyAdministeredChange
<1>1. PICK c \in CartRecord : c = cart[g] /\ CartOK(c) /\ c.pc = "routed"
  BY CartFacts DEF CheckoutGroups
<1>2. RowInv /\ CartsOK
  BY CartFacts
<1>3. RowInv' /\ Kept /\ OnlyAdministeredChange
  BY <1>2, QuietStep DEF CheckoutGroups
<1>4. PICK groups : groups = {<<h, group[h]>> : h \in GroupsOf({c.item})}
  OBVIOUS
<1>5. groups \in SUBSET (GroupIds \X GroupRow)
  BY <1>2, <1>4 DEF GroupsOf, RowInv, RowsOK
<1>6. PICK x : x = [c EXCEPT !.pc = "groups", !.groups = groups]
  OBVIOUS
<1>7. /\ x \in CartRecord
      /\ x.pc = "groups" /\ x.code = c.code /\ x.station_id = c.station_id
      /\ x.branch = c.branch /\ x.item = c.item /\ x.row = c.row
  BY <1>5, <1>6 DEF CartRecord
<1>8. CartOK(x)
  BY <1>1, <1>7 DEF CartOK
<1>9. CartOK(x)'
  BY <1>3, <1>7, <1>8, KeptCart
<1>10. cart' = [cart EXCEPT ![g] = x] /\ UNCHANGED <<edit, audit, kds>>
  BY <1>1, <1>2, <1>4, <1>6 DEF CheckoutGroups, effects, CartsOK
<1> QED
  BY <1>3, <1>7, <1>9, <1>10, CartStep

LEMMA CheckoutOptionsSafe ==
    ASSUME IInv, NEW g \in Checkouts, CheckoutOptions(g)
    PROVE  IInv' /\ OnlyAdministeredChange
<1>1. PICK c \in CartRecord : c = cart[g] /\ CartOK(c) /\ c.pc = "groups"
  BY CartFacts DEF CheckoutOptions
<1>2. RowInv /\ CartsOK
  BY CartFacts
<1>3. RowInv' /\ Kept /\ OnlyAdministeredChange
  BY <1>2, QuietStep DEF CheckoutOptions
<1>4. PICK chosen : chosen = UNION {c.chosen[h] : h \in DOMAIN c.chosen}
  OBVIOUS
<1>5. PICK modifiers : modifiers = {<<o, option[o].price_delta>> : o \in chosen}
  OBVIOUS
<1>6. \A o \in chosen : o \in OptionIds /\ option[o] # None
  <2> SUFFICES ASSUME NEW o \in chosen
               PROVE  o \in OptionIds /\ option[o] # None
    OBVIOUS
  <2>1. ValidSelection(c.chosen, c.groups, OptionsOf({h[1] : h \in c.groups}))
    BY <1>1 DEF CheckoutOptions
  <2>2. PICK h \in DOMAIN c.chosen : o \in c.chosen[h]
    BY <1>4
  <2>3. PICK entry \in c.groups : entry[1] = h
    BY <2>1, <2>2 DEF ValidSelection
  <2>4. o \in ChosenOf(c.chosen, entry[1])
    BY <2>2, <2>3 DEF ChosenOf
  <2>5. o \in OptionsOf({k[1] : k \in c.groups})
    BY <2>1, <2>3, <2>4 DEF ValidSelection
  <2> QED
    BY <2>5 DEF OptionsOf
<1>7. modifiers \in SUBSET (OptionIds \X Deltas)
  BY <1>2, <1>5, <1>6 DEF RowInv, RowsOK, OptionRow
<1>8. PICK x : x = [c EXCEPT !.pc = "priced", !.modifiers = modifiers]
  OBVIOUS
<1>9. /\ x \in CartRecord
      /\ x.pc = "priced" /\ x.code = c.code /\ x.station_id = c.station_id
      /\ x.branch = c.branch /\ x.item = c.item /\ x.row = c.row
  <2>1. x \in CartRecord
    BY <1>7, <1>8 DEF CartRecord
  <2>2. /\ x.pc = "priced" /\ x.code = c.code /\ x.station_id = c.station_id
        /\ x.branch = c.branch /\ x.item = c.item /\ x.row = c.row
    BY <1>8 DEF CartRecord
  <2> QED
    BY <2>1, <2>2
<1>10. CartOK(x)
  BY <1>1, <1>9 DEF CartOK
<1>11. CartOK(x)'
  BY <1>3, <1>9, <1>10, KeptCart
<1>12. cart' = [cart EXCEPT ![g] = x] /\ UNCHANGED <<edit, audit, kds>>
  BY <1>1, <1>2, <1>4, <1>5, <1>8 DEF CheckoutOptions, effects, CartsOK
<1> QED
  BY <1>3, <1>9, <1>11, <1>12, CartStep
LEMMA CheckoutCommitSafe ==
    ASSUME IInv, NEW g \in Checkouts, NEW l \in LineIds, CheckoutCommit(g, l)
    PROVE  IInv' /\ OnlyAdministeredChange
<1>1. PICK c \in CartRecord : c = cart[g] /\ CartOK(c) /\ c.pc = "priced"
  BY CartFacts DEF CheckoutCommit
<1>2. RowInv /\ CartsOK
  BY CartFacts
<1>3. /\ c.branch \in Branches /\ c.item \in ItemIds /\ c.row \in ItemRow
      /\ ItemHere(c.item, c.branch) /\ NamesStation(c.station_id, c.branch)
      /\ c.code \in Codes \cup KitchenStation
  BY <1>1 DEF CartOK
<1>4. PICK row : row = [branch_id |-> c.branch, item_id |-> c.item,
                        base_price |-> c.row.base_price, station_id |-> c.station_id,
                        station_code |-> c.code, modifiers |-> c.modifiers, open |-> TRUE]
  OBVIOUS
<1>5. row \in LineRow
  <2>1. c.row.base_price \in Prices
    BY <1>3 DEF ItemRow
  <2>2. c.station_id \in StationIds \cup {None} /\ c.modifiers \in SUBSET (OptionIds \X Deltas)
    BY DEF CartRecord
  <2> QED
    BY <1>3, <1>4, <2>1, <2>2 DEF LineRow
<1>6. /\ row.branch_id = c.branch /\ row.item_id = c.item /\ row.station_id = c.station_id
  BY <1>4
<1>7. /\ l \notin used /\ item[c.item] # None /\ StationExists(c.station_id)
      /\ line' = [line EXCEPT ![l] = row] /\ used' = used \cup {l}
      /\ UNCHANGED <<station, category, item, group, option, edit, audit, kds>>
  BY <1>1, <1>4 DEF CheckoutCommit, Fresh, effects
<1>8. /\ ItemIn(row.item_id, row.branch_id)
      /\ row.station_id # None => StationIn(row.station_id, row.branch_id)
  BY <1>3, <1>6, <1>7 DEF ItemHere, NamesStation, StationHere, StationExists
<1>9. RowInv' /\ Kept /\ OnlyAdministeredChange
  BY <1>2, <1>5, <1>7, <1>8, PutLine
<1>10. PICK x : x = [NoCart EXCEPT !.pc = "committed", !.line = l]
  OBVIOUS
<1>11. x \in CartRecord /\ x.pc = "committed" /\ x.line = l
  BY <1>10 DEF NoCart, CartRecord
<1>12. line'[l] # None
  BY <1>2, <1>5, <1>7, IdsAssumption DEF RowInv, RowsOK
<1>13. CartOK(x)'
  BY <1>11, <1>12 DEF CartOK
<1>14. cart' = [cart EXCEPT ![g] = x]
  BY <1>10 DEF CheckoutCommit
<1> QED
  BY <1>7, <1>9, <1>11, <1>13, <1>14, CartStep

\* Lines that are there go to the station they were routed to.
LEMMA TicketsAdded ==
    ASSUME IInv, Kept, NEW lines \in SUBSET LineIds, \A l \in lines : line[l] # None,
           kds' = kds \cup SubTickets(lines)
    PROVE  TicketsOK'
<1>1. \A t \in kds \cup SubTickets(lines) : TicketOK(t)
  BY CartFacts, PartsOfIInv DEF TicketsOK, TicketOK, SubTickets
<1> QED
  BY <1>1 DEF TicketsOK, TicketOK, Kept

LEMMA CheckoutDispatchSafe ==
    ASSUME IInv, NEW g \in Checkouts, CheckoutDispatch(g)
    PROVE  IInv' /\ OnlyAdministeredChange
<1>1. PICK l \in LineIds : l = cart[g].line /\ line[l] # None
  BY CartFacts DEF CheckoutDispatch, CartOK
<1>2. RowInv' /\ Kept /\ OnlyAdministeredChange
  BY CartFacts, QuietStep DEF CheckoutDispatch
<1>3. Answer(g) /\ UNCHANGED <<edit, audit>> /\ kds' = kds \cup SubTickets({l})
  BY <1>1 DEF CheckoutDispatch
<1>4. TicketsOK'
  BY <1>1, <1>2, <1>3, TicketsAdded
<1> QED
  BY <1>2, <1>3, <1>4, CartFacts, AnsweredCart, EditsStay, AuditStays, PartsOfIInvPrimed

LEMMA CheckoutSafe ==
    ASSUME IInv, NEW g \in Checkouts, Checkout(g) \/ AbortCheckout(g)
    PROVE  IInv' /\ OnlyAdministeredChange
BY CheckoutItemSafe, ReorderLoadSafe, ReorderItemSafe, CheckoutStationSafe,
   CheckoutGroupsSafe, CheckoutOptionsSafe, CheckoutCommitSafe, CheckoutDispatchSafe, QuietAnswerSafe DEF Checkout

LEMMA KitchenSafe ==
    ASSUME IInv, Kitchen
    PROVE  IInv' /\ OnlyAdministeredChange
<1>1. RowInv /\ EditsOK /\ CartsOK /\ AuditOK /\ TicketsOK
  BY PartsOfIInv
<1>2. ASSUME NEW lines \in SUBSET LineIds, \A l \in lines : line[l] # None,
             kds' = kds \cup SubTickets(lines), UNCHANGED <<rows, used, edit, cart, audit>>
      PROVE  IInv' /\ OnlyAdministeredChange
  <2>1. RowInv' /\ Kept /\ OnlyAdministeredChange
    BY <1>1, <1>2, QuietStep
  <2>2. TicketsOK'
    BY <1>2, <2>1, TicketsAdded
  <2> QED
    BY <1>1, <1>2, <2>1, <2>2, EditsStay, CartsStay, AuditStays, PartsOfIInvPrimed
<1>3. ASSUME NEW l \in LineIds, ConfirmDispatch(l)
      PROVE  IInv' /\ OnlyAdministeredChange
  BY <1>2, <1>3 DEF ConfirmDispatch
<1>4. ASSUME NEW l \in LineIds, OrderEnds(l)
      PROVE  IInv' /\ OnlyAdministeredChange
  <2>1. RowInv' /\ Kept /\ OnlyAdministeredChange
    BY <1>1, <1>4, CloseLine DEF OrderEnds
  <2>2. UNCHANGED <<edit, cart, audit, kds>>
    BY <1>4 DEF OrderEnds, effects
  <2> QED
    BY <1>1, <2>1, <2>2, EditsStay, CartsStay, AuditStays, TicketsStay, PartsOfIInvPrimed
<1>5. ASSUME NEW b \in Branches, PollTickets(b)
      PROVE  IInv' /\ OnlyAdministeredChange
  BY <1>2, <1>5 DEF PollTickets
<1> QED
  BY <1>3, <1>4, <1>5 DEF Kitchen

-----------------------------------------------------------------------------
(* The invariant *)

LEMMA InitIInv == Init => IInv
<1> SUFFICES ASSUME Init PROVE IInv
  OBVIOUS
<1>1. RowInv
  BY DEF Init, TypeOK, RowInv
<1>2. EditsOK
  <2>1. EditOK(NoEdit)
    BY DEF EditOK, NoEdit
  <2> QED
    BY <2>1 DEF Init, EditsOK
<1>3. CartsOK
  <2>1. CartOK(NoCart) /\ NoCart \in CartRecord
    BY DEF CartOK, NoCart, CartRecord
  <2> QED
    BY <2>1 DEF Init, CartsOK
<1>4. AuditOK /\ TicketsOK
  BY DEF Init, AuditOK, TicketsOK
<1> QED
  BY <1>1, <1>2, <1>3, <1>4, PartsOfIInv

LEMMA StepIInv == IInv /\ [Next]_catalogueVars => IInv' /\ OnlyAdministeredChange
<1> SUFFICES ASSUME IInv, [Next]_catalogueVars
             PROVE  IInv' /\ OnlyAdministeredChange
  OBVIOUS
<1>1. ASSUME NEW e \in Edits, MenuBegin(e) \/ MenuCommit(e) \/ MenuAfter(e)
                              \/ StationBegin(e) \/ StationCommit(e)
                              \/ MenuFailure(e) \/ AbortEdit(e)
      PROVE  IInv' /\ OnlyAdministeredChange
  BY <1>1, MenuBeginSafe, MenuCommitSafe, MenuAfterSafe, StationBeginSafe, StationCommitSafe
<1>2. ASSUME NEW g \in Checkouts, Checkout(g) \/ AbortCheckout(g)
      PROVE  IInv' /\ OnlyAdministeredChange
  BY <1>2, CheckoutSafe
<1>3. CASE UNCHANGED catalogueVars
  <2>1. UNCHANGED <<rows, used, edit, cart, audit, kds>>
    BY <1>3 DEF catalogueVars, effects
  <2>2. RowInv' /\ Kept /\ OnlyAdministeredChange
    BY <2>1, PartsOfIInv, QuietStep
  <2> QED
    BY <2>1, <2>2, PartsOfIInv, EditsStay, CartsStay, AuditStays, TicketsStay,
       PartsOfIInvPrimed
<1> QED
  BY <1>1, <1>2, <1>3, KitchenSafe DEF Next, Work, Failure

\* IInv holds in every state, for any menu and any number of requests.
THEOREM MenuInvariant == Spec => []IInv
BY InitIInv, StepIInv, PTL DEF Spec

\* Nothing is left referring to a row that was deleted meanwhile: an edit or a checkout
\* whose check is out of date is refused when it commits.
THEOREM MenuReferencesHold == Spec => []ReferencesHold
<1>1. IInv => ReferencesHold
  BY DEF IInv
<1> QED
  BY <1>1, MenuInvariant, PTL

\* A check made before the commit is as good as one made in it, because no row ever
\* changes its branch and no id is given out twice.
THEOREM MenuStaysInBranch == Spec => []OwnBranch
<1>1. IInv => OwnBranch
  BY DEF IInv
<1> QED
  BY <1>1, MenuInvariant, PTL

\* The audit log claims no deletion of a row that is still there and no creation that
\* was rolled back.
THEOREM AuditNeverLies == Spec => []AuditIsTruthful
<1>1. IInv => AuditIsTruthful
  BY DEF IInv, AuditIsTruthful, Settled
<1> QED
  BY <1>1, MenuInvariant, PTL

\* Every display of a line shows it under the same station.
THEOREM TicketsAgree == Spec => []OneTicketPerLine
<1>1. IInv => OneTicketPerLine
  BY DEF IInv, OneTicketPerLine, TicketOK
<1> QED
  BY <1>1, MenuInvariant, PTL

\* Every change of the catalogue is in a branch that some manager may administer.
THEOREM EditsAreAdministered == Spec => EditsStayInBranch
<1>1. IInv /\ [Next]_catalogueVars => [OnlyAdministeredChange]_catalogueVars
  BY StepIInv
<1> QED
  BY <1>1, MenuInvariant, PTL DEF Spec, EditsStayInBranch
===============================================================================
