----------------------------- MODULE Publishing -----------------------------
(***************************************************************************)
(* Publishing a place (luau/gdextension/host/Publish.gd): its files into     *)
(* the AssetStore one after the other, in one transaction or several, then  *)
(* a manifest that names them.  A transaction may be refused, revert, be     *)
(* mined with nobody told, or land long after the publisher has stopped      *)
(* waiting; then the publisher starts again from what the chain has.  Other  *)
(* people publish meanwhile, also the same bytes.                           *)
(*                                                                         *)
(* A file is the sequence of its chunks.  The transactions of one sender     *)
(* are mined in the order of their nonces.                                  *)
(***************************************************************************)
EXTENDS AssetStore

CONSTANTS
    Path,
    DataOf, MimeOf,         \* of a path: its bytes, and what its name says they are
    ManifestMime,           \* application/json
    Foreign,                \* bound: the blobs that others publish
    ChunksPerTx             \* how many chunks' calldata fit MAX_TX_DATA

Manifest == "manifest"

\* Bytes that name a blob for every path.
IsManifest(data) == Len(data) = 1 /\ data[1] \in [manifest : [Path -> Nat]]

ASSUME PublishingAssumption ==
    /\ IsFiniteSet(Path) /\ Manifest \notin Path
    /\ DOMAIN DataOf = Path /\ DOMAIN MimeOf = Path
    /\ \A p \in Path : DataOf[p] # <<>>      \* "nothing to store"
    /\ ChunksPerTx \in Nat \ {0}
    \* Neither a file nor what others publish is a manifest of this place.
    /\ \A p \in Path : ~IsManifest(DataOf[p])
    /\ \A b \in Foreign : ~IsManifest(b.data)

VARIABLES
    todo,       \* to_store, and the manifest after it
    uris,       \* path -> id, of those kept and those stored
    landed,     \* chunk addresses of the file at the front of todo
    waits,      \* _send is waiting for a receipt
    sent,       \* transactions not mined yet
    receipt     \* of the transaction waited for

publishVars == <<todo, uris, landed, waits, sent, receipt>>

NoReceipt == [chunks |-> <<>>, id |-> 0]
NoUris == [p \in Path |-> 0]

PublishInit ==
    /\ StoreInit
    /\ todo = <<>> /\ uris = NoUris /\ landed = <<>>
    /\ waits = FALSE /\ sent = <<>> /\ receipt = NoReceipt

-----------------------------------------------------------------------------
(***************************************************************************)
(* read_place and plan, behind Check.                                      *)
(***************************************************************************)
\* Mutant of Kept: the bytes are enough, whatever they are called.
KeptAnyhow(p) == BlobOf(DataOf[p])

\* The blob a path need not be stored again for, or 0.
Kept(p) ==
    LET id == BlobOf(DataOf[p])
    IN  IF id # 0 /\ blobs[id].mime = MimeOf[p] THEN id ELSE 0

Plan ==
    /\ todo = <<>>
    /\ uris' = [p \in Path |-> Kept(p)]
    /\ todo' = Append(SetToSeq({p \in Path : Kept(p) = 0}), Manifest)
    /\ landed' = <<>>
    /\ UNCHANGED <<waits, sent, receipt, storeVars>>

(***************************************************************************)
(* publish and store_bytes: the next transaction.                          *)
(***************************************************************************)
Data(key) == IF key = Manifest THEN <<[manifest |-> uris]>> ELSE DataOf[key]
MimeFor(key) == IF key = Manifest THEN ManifestMime ELSE MimeOf[key]

Call(do, parts, key) ==
    [do |-> do, parts |-> parts, data |-> Data(key), mime |-> MimeFor(key), chunks |-> landed]

NextCall(key) ==
    LET data == Data(key)
        first == Len(landed) + 1
        last == Min({Len(landed) + ChunksPerTx, Len(data)})
    IN  IF Len(data) <= ChunksPerTx THEN Call("storeAndPublish", data, key)
        ELSE IF first > Len(data) THEN Call("publish", <<>>, key)
        ELSE Call("storeMany", SubSeq(data, first, last), key)

Send ==
    /\ todo # <<>> /\ ~waits
    /\ sent' = Append(sent, NextCall(Head(todo)))
    /\ waits' = TRUE
    /\ UNCHANGED <<todo, uris, landed, receipt, storeVars>>

\* The last one sent is the one waited for.
Awaited == waits /\ receipt = NoReceipt /\ Len(sent) = 1

Mined ==
    /\ sent # <<>>
    /\ sent' = Tail(sent)
    /\ LET tx == Head(sent)
       IN  \/ tx.do = "storeMany" /\ StoreMany(tx.parts)
           \/ tx.do = "publish" /\ PublishBlob(tx.data, tx.mime, tx.chunks)
           \/ tx.do = "storeAndPublish" /\ StoreAndPublish(tx.data, tx.mime, tx.parts)
    /\ receipt' = IF ~Awaited THEN receipt
                  ELSE [chunks |-> Addresses(Head(sent).parts),
                        id |-> IF Head(sent).do = "storeMany" THEN 0 ELSE Len(blobs')]
    /\ UNCHANGED <<todo, uris, landed, waits>>

\* Out of gas, or refused by the node after all.
Revert ==
    /\ sent # <<>>
    /\ sent' = Tail(sent)
    /\ UNCHANGED <<todo, uris, landed, waits, receipt, storeVars>>

(***************************************************************************)
(* The receipt: more chunks of the file, or its uri.                        *)
(***************************************************************************)
Confirmed ==
    /\ waits /\ receipt # NoReceipt
    /\ waits' = FALSE /\ receipt' = NoReceipt
    /\ IF receipt.id = 0
       THEN landed' = landed \o receipt.chunks /\ UNCHANGED <<todo, uris>>
       ELSE /\ landed' = <<>>
            /\ todo' = Tail(todo)
            /\ uris' = IF Head(todo) = Manifest THEN uris
                       ELSE [uris EXCEPT ![Head(todo)] = receipt.id]
    /\ UNCHANGED <<sent, storeVars>>

\* Mutant of Fails: the file is left out and the rest goes on.
FailsOn ==
    /\ todo # <<>>
    /\ todo' = Tail(todo) /\ landed' = <<>>
    /\ waits' = FALSE /\ receipt' = NoReceipt
    /\ UNCHANGED <<uris, sent, storeVars>>

\* Refused, reverted, no receipt in time, or none that could be read: publish
\* returns, and the place has to be checked again.
Fails ==
    /\ todo # <<>>
    /\ todo' = <<>> /\ landed' = <<>>
    /\ waits' = FALSE /\ receipt' = NoReceipt
    /\ UNCHANGED <<uris, sent, storeVars>>

Others ==
    /\ \E b \in Foreign : StoreAndPublish(b.data, b.mime, b.data)
    /\ UNCHANGED publishVars

PublishNext == Plan \/ Send \/ Mined \/ Revert \/ Confirmed \/ Fails \/ Others
PublishSpec == PublishInit /\ [][PublishNext]_<<storeVars, publishVars>>

-----------------------------------------------------------------------------
(***************************************************************************)
(* Whatever failed on the way and whoever else was publishing, a manifest   *)
(* on chain names for every path an earlier blob of that file's bytes and    *)
(* type: a client that mounts the place gets all of it.                     *)
(***************************************************************************)
ManifestIsWhole ==
    \A n \in DOMAIN blobs : IsManifest(blobs[n].data) =>
        \A p \in Path :
           LET id == blobs[n].data[1].manifest[p]
           IN  id \in 1..(n - 1) /\ blobs[id] = Blob(DataOf[p], MimeOf[p])

(***************************************************************************)
(* "Whatever landed is kept: Check again and it will not be sent twice"     *)
(* (Publisher.gd).  Not so for bytes first published under another type.    *)
(***************************************************************************)
LandedIsKept ==
    [][Plan => \A p \in Path : Blob(DataOf[p], MimeOf[p]) \in Range(blobs) => uris'[p] # 0]_<<storeVars, publishVars>>
=============================================================================
