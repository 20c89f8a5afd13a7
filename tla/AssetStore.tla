----------------------------- MODULE AssetStore -----------------------------
(***************************************************************************)
(* contracts/AssetStore.sol: bytes on chain for ever.  A chunk is a contract *)
(* whose code is the bytes; a blob is a list of chunks under the hash of     *)
(* all of them, which the contract computes itself.  keccak256 is taken as   *)
(* injective, so data stands for its hash; a transaction is atomic, and an   *)
(* action is one that does not revert.                                      *)
(***************************************************************************)
EXTENDS Naturals, SequencesExt

CONSTANTS
    MaxBlobs, MaxChunks     \* bounds on what is ever stored

VARIABLES
    chunks,     \* the code of chunk contracts, by address
    blobs       \* _blobs; the id of a blob is its place

storeVars == <<chunks, blobs>>

StoreInit == chunks = <<>> /\ blobs = <<>>

Blob(data, mime) == [data |-> data, mime |-> mime]

\* blobOf: the first blob of these bytes, or 0.
BlobOf(data) == SelectInSeq(blobs, LAMBDA b : b.data = data)

\* store, storeMany: where the parts go.
Addresses(parts) == [i \in DOMAIN parts |-> Len(chunks) + i]
Store(parts) ==
    /\ Len(chunks) + Len(parts) <= MaxChunks
    /\ chunks' = chunks \o parts

\* _publish, once the chunks are `code'.
RegisterBlob(data, mime, addresses, code) ==
    /\ Len(blobs) < MaxBlobs
    /\ addresses # <<>> /\ Range(addresses) \subseteq DOMAIN code
    /\ [i \in DOMAIN addresses |-> code[addresses[i]]] = data
    /\ blobs' = Append(blobs, Blob(data, mime))

StoreMany(parts) == Store(parts) /\ UNCHANGED blobs

PublishBlob(data, mime, addresses) ==
    RegisterBlob(data, mime, addresses, chunks) /\ UNCHANGED chunks

StoreAndPublish(data, mime, parts) ==
    Store(parts) /\ RegisterBlob(data, mime, Addresses(parts), chunks')
=============================================================================
