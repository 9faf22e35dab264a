---------------------------- MODULE ImportPromise ----------------------------
(***************************************************************************)
(* What an import promises, whatever is sent again, late, lost or twice on *)
(* the way: a store takes what one import has read, rows and receipt       *)
(* together and once per key, and what the client is told is true of the   *)
(* receipts.                                                               *)
(*                                                                         *)
(* The import of bank data is meant to implement this specification        *)
(* (docs/data-model.md, import_batches; ImportPipeline.tla holds the       *)
(* requests, their calls and the sessions of the services).                *)
(***************************************************************************)
EXTENDS Naturals

CONSTANTS
    Imports,        \* what clients ask for, once or again
    Ways,           \* kinds of import
    IdKeys,         \* idempotency keys
    Texts,          \* bodies
    Stores,         \* who keeps the data
    Feeds,          \* where the data are read
    StoresOf,       \* the stores an import of a kind writes
    FeedsOf         \* the feeds a store keeps

VARIABLES
    world,          \* the version each feed has now
    wanted,         \* the kind, the key and the body of each import
    read,           \* what each import has read (0: nothing)
    told,           \* what its client was told
    held,           \* the receipts of each store
    table,          \* the row of each feed
    hasty           \* clients are answered before the stores have committed

ipVars == <<world, wanted, read, told, held, table, hasty>>

TableRow == [fixed : Nat, current : Nat]

IPInit ==
    /\ world = [f \in Feeds |-> 1]
    /\ wanted \in [Imports -> [way : Ways, key : IdKeys, text : Texts]]
    /\ read = [i \in Imports |-> [f \in Feeds |-> 0]]
    /\ told = [i \in Imports |-> "none"]
    /\ held = [s \in Stores |-> {}]
    /\ table = [f \in Feeds |-> [fixed |-> 0, current |-> 0]]
    /\ hasty \in BOOLEAN
-----------------------------------------------------------------------------
Stamp(i) == <<wanted[i].key, wanted[i].way>>

(* What a store keeps of an import. *)
Receipt(i, s) ==
    [stamp |-> Stamp(i), text |-> wanted[i].text, data |-> [f \in FeedsOf[s] |-> read[i][f]]]

StoresFor(i) == StoresOf[wanted[i].way]

Imported(i) == \A s \in StoresFor(i) : Receipt(i, s) \in held[s]

(* A store has taken something else under the key of i. *)
Contradicted(i) == \E s \in StoresFor(i) : \E x \in held[s] : x.stamp = Stamp(i) /\ x # Receipt(i, s)

(* i was asked before, with the same body or another one, and accepted. *)
AcceptedBefore(i, same) ==
    \E j \in Imports : /\ told[j] = "accepted"
                       /\ Stamp(j) = Stamp(i)
                       /\ (wanted[j].text = wanted[i].text) = same

(* A row that is written has both its columns, each old or new. *)
Rewritten(row, v) ==
    {new \in [fixed : {row.fixed, v}, current : {row.current, v}] : new.fixed # 0 /\ new.current # 0}
-----------------------------------------------------------------------------
WorldMoves ==
    /\ \E f \in Feeds : world' = [world EXCEPT ![f] = @ + 1]
    /\ UNCHANGED <<wanted, read, told, held, table, hasty>>

ReadFeed(i, f) ==
    /\ told[i] = "none"
    /\ read' = [read EXCEPT ![i][f] = world[f]]
    /\ UNCHANGED <<world, wanted, told, held, table, hasty>>

(* Also for an import whose client has given up. *)
Take(i, s) ==
    /\ s \in StoresFor(i)
    /\ \A x \in held[s] : x.stamp # Stamp(i)
    /\ \A f \in FeedsOf[s] : read[i][f] # 0
    /\ held' = [held EXCEPT ![s] = @ \cup {Receipt(i, s)}]
    /\ table' \in [Feeds -> TableRow]
    /\ \A f \in FeedsOf[s] : table'[f] \in Rewritten(table[f], read[i][f])
    /\ \A f \in Feeds \ FeedsOf[s] : table'[f] = table[f]
    /\ UNCHANGED <<world, wanted, read, told, hasty>>

Tell(i, answer) ==
    /\ told[i] = "none"
    /\ answer \in {"accepted", "unrecorded"} => hasty \/ Imported(i)
    /\ answer = "replayed" => AcceptedBefore(i, TRUE)
    /\ answer = "reused" => Contradicted(i) \/ AcceptedBefore(i, FALSE)
    /\ told' = [told EXCEPT ![i] = answer]
    /\ UNCHANGED <<world, wanted, read, held, table, hasty>>

(* Imports that end together, with nobody to tell. *)
Abandon(some) ==
    /\ \A i \in some : told[i] = "none"
    /\ told' = [i \in Imports |-> IF i \in some THEN "lost" ELSE told[i]]
    /\ UNCHANGED <<world, wanted, read, held, table, hasty>>

Told == {"accepted", "unrecorded", "replayed", "reused", "unavailable", "timeout", "unauthorized"}

IPNext ==
    \/ WorldMoves
    \/ \E i \in Imports :
          \/ \E f \in Feeds : ReadFeed(i, f)
          \/ \E s \in Stores : Take(i, s)
          \/ \E answer \in Told : Tell(i, answer)
    \/ \E some \in SUBSET Imports : Abandon(some)

IPSpec == IPInit /\ [][IPNext]_ipVars
-----------------------------------------------------------------------------
(* What a receipt says was read from the feeds and is in the table, and a  *)
(* store has one receipt of a key.                                         *)
ReceiptsAreTrue ==
    \A s \in Stores : \A x \in held[s] :
        /\ \A f \in FeedsOf[s] : x.data[f] \in 1 .. world[f] /\ table[f].fixed # 0
        /\ \A y \in held[s] : x.stamp = y.stamp => x = y

(* No row is newer than its feed. *)
TableIsRead == \A f \in Feeds : table[f].fixed <= world[f] /\ table[f].current <= world[f]

(* Who was told that an import is accepted finds what it has read in every *)
(* store it was for, and a row of every feed.                              *)
AcceptedIsThere ==
    \A i \in Imports : told[i] = "accepted" /\ ~hasty =>
        /\ Imported(i)
        /\ \A s \in StoresFor(i) : \A f \in FeedsOf[s] : table[f].fixed # 0
=============================================================================
