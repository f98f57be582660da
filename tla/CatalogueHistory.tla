---------------------------- MODULE CatalogueHistory ----------------------------
(***************************************************************************)
(* Catalogue with history variables, which no step reads: what guests pay  *)
(* and displays hear is true of some earlier moment, seldom of now.        *)
(***************************************************************************)
EXTENDS Catalogue

VARIABLES listed,  \* the items that were on the menu at some moment of each checkout
          seen,    \* what was available at some moment of it, with its price then
          had      \* every availability that a row was ever committed with

historyVars == <<catalogueVars, listed, seen, had>>

Availabilities == {<<x, Stored(x)>> : x \in {x \in ItemIds \cup OptionIds : Present(x)}}

MenuOf(b) == {i \in ItemIds : OnMenu(i, b)}

\* The menu may hide the category of an item that is available.
OnSale(b) ==
    {<<i, item[i].base_price>> : i \in {i \in ItemIds : ItemIn(i, b) /\ item[i].is_available}}
    \cup {<<o, option[o].price_delta>> :
            o \in {o \in OptionIds : OptionIn(o, b) /\ option[o].is_available}}

\* What a checkout is offered in its branch; nothing, before it names one.
Lists(x)  == UNION {MenuOf(b) : b \in Branches \cap {x.branch}}
Offers(x) == UNION {OnSale(b) : b \in Branches \cap {x.branch}}

\* What checkout x knows by now: it forgets at its end, and its commit learns nothing.
Remembers(x, known, news) ==
    CASE x.pc = "done" -> {}
      [] x.pc = "committed" -> known
      [] OTHER -> known \cup news

Watched ==
    /\ listed' = [g \in Checkouts |-> Remembers(cart[g]', listed[g], Lists(cart[g])')]
    /\ seen' = [g \in Checkouts |-> Remembers(cart[g]', seen[g], Offers(cart[g])')]
    /\ had' = had \cup Availabilities'

HistoryInit ==
    /\ Init
    /\ listed = [g \in Checkouts |-> {}]
    /\ seen = [g \in Checkouts |-> {}]
    /\ had = Availabilities

HistorySpec == HistoryInit /\ [][Next /\ Watched]_historyVars

-----------------------------------------------------------------------------
\* A line charges for the item and each option a price at which it was available in the
\* branch while the guest was checking out, and for nothing that was sold out all along;
\* the item was on the menu meanwhile, though perhaps never at that price (see README).
OfferedLines ==
    \A g \in Checkouts : cart[g].line # None =>
       LET ordered == line[cart[g].line]
       IN  /\ ordered.item_id \in listed[g]
           /\ <<ordered.item_id, ordered.base_price>> \in seen[g]
           /\ ordered.modifiers \subseteq seen[g]

\* Displays are told of an availability only once it was committed, though it may not be
\* the latest: nobody hears of an edit that was rolled back.
BroadcastsWereStored == \A x \in ItemIds \cup OptionIds : told[x] # None => <<x, told[x]>> \in had

-----------------------------------------------------------------------------
(* What makes them inductive *)

\* The groups a checkout loaded are its item's, as long as they are there.
KnownGroups(x) ==
    \A h \in {entry[1] : entry \in x.groups} :
       h \in used /\ (group[h] # None => group[h].item_id = x.item)

\* What a checkout holds it has seen on the menu, and on sale.
SeenOnSale(x, menu, sold) ==
    /\ x.line # None => x.pc = "committed"
    /\ x.pc = "loaded" /\ x.row.is_available => <<x.item, x.row.base_price>> \in sold
    /\ x.pc \in {"item", "routed", "groups", "priced"} =>
          x.item \in menu /\ <<x.item, x.row.base_price>> \in sold
    /\ x.pc = "groups" => KnownGroups(x)
    /\ x.pc = "priced" => x.modifiers \subseteq sold

Switches == {"ITEM_UPDATED", "ITEM_RESTOCKED", "ITEM_86_TRIGGERED", "ITEM_DEACTIVATED",
             "MODIFIER_OPTION_UPDATED", "MODIFIER_OPTION_RESTOCKED",
             "MODIFIER_OPTION_86_TRIGGERED"}

\* What an edit is to broadcast was committed, or will be by this edit.
TellsStored(x) ==
    /\ x.tell \in {"nothing", "stored", "available", "sold_out"}
    /\ x.tell # "nothing" => /\ x.pc \in {"loaded", "committed", "refreshed"}
                             /\ x.op \in Switches /\ x.id \in ItemIds \cup OptionIds
    /\ x.tell = "stored" => x.pc # "refreshed" /\ x.op # "ITEM_DEACTIVATED"
    /\ x.tell \in {"available", "sold_out"} =>
          \/ <<x.id, x.tell>> \in had
          \/ /\ x.pc = "loaded" /\ "is_available" \in DOMAIN x.patch
             /\ x.tell = Availability(x.patch.is_available)

HInv ==
    /\ IInv
    /\ DOMAIN listed = Checkouts /\ DOMAIN seen = Checkouts
    /\ DOMAIN told = ItemIds \cup OptionIds
    /\ Availabilities \subseteq had
    /\ \A g \in Checkouts : SeenOnSale(cart[g], listed[g], seen[g])
    /\ \A x \in {edit[e] : e \in Edits} : TellsStored(x)
    /\ OfferedLines
    /\ BroadcastsWereStored
===============================================================================
