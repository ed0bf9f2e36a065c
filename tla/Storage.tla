------------------------------ MODULE Storage ------------------------------
(***************************************************************************)
(* The credential store of the firmware: src/firmware/main/storage.cpp.    *)
(*                                                                         *)
(* The Preferences namespace "fido2" holds at most MAX_CREDENTIALS blobs   *)
(* under the keys cred_00, cred_01, ...  `nvs' is the function from the    *)
(* present keys (their slot numbers) to the blobs: a key that is absent is *)
(* one for which getBytesLength returns 0.  `initialized' is RAM.  A blob  *)
(* write is all or nothing, and may fail (`written' = FALSE).              *)
(*                                                                         *)
(* Fields of fido2_credential_t no operation of the store looks at (the    *)
(* private key, the user's id and name) are left out.                      *)
(***************************************************************************)
EXTENDS Naturals, FiniteSets, FiniteSetsExt

CONSTANTS Rps,              \* relying parties (rp_id_hash values)
          CredIds,          \* credential identifiers that may be drawn
          MAX_CREDENTIALS,  \* ctap2_types.h
          MaxCount          \* largest counter: 2^32 - 1 in the code, small for TLC

ASSUME CapacityAssumption == MAX_CREDENTIALS \in Nat \ {0}
ASSUME CountAssumption == MaxCount \in Nat

VARIABLES nvs,          \* flash: slot number -> credential blob
          initialized   \* RAM: the namespace is open

storageVars == <<nvs, initialized>>

Slot == 0 .. MAX_CREDENTIALS - 1
Counter == 0 .. MaxCount
Credential == [valid : BOOLEAN, id : CredIds, rp : Rps, sign_count : Counter]

(* The slots a search stops at.  Every loop of the file runs over the      *)
(* slots upwards and skips absent keys: it takes the minimum of such a set. *)
Holding(rp) == {i \in DOMAIN nvs : nvs[i].valid /\ nvs[i].rp = rp}
Matching(rp, id) == {i \in Holding(rp) : nvs[i].id = id}
Named(id) == {i \in DOMAIN nvs : nvs[i].valid /\ nvs[i].id = id}

(* Free for a new credential: the key is absent or its blob invalid.  The  *)
(* mutant misses the last slot.                                            *)
FreeMissesLast == {i \in 0 .. MAX_CREDENTIALS - 2 : i \in DOMAIN nvs => ~nvs[i].valid}
Free == {i \in Slot : i \in DOMAIN nvs => ~nvs[i].valid}

PutBytes(i, c) == [j \in DOMAIN nvs \cup {i} |-> IF j = i THEN c ELSE nvs[j]]

StoredIds == {nvs[i].id : i \in DOMAIN nvs}

-----------------------------------------------------------------------------
(* Searches: the slots a search may return, none when the store is closed. *)
FindCredential(rp, id) == IF initialized THEN Matching(rp, id) ELSE {}
FindCredentialsForRp(rp) == IF initialized THEN Holding(rp) ELSE {}

StorageInit(ok) == initialized' = ok /\ UNCHANGED nvs

(* storage_store_credential returning true.  The mutant misses the return  *)
(* after the write and goes on to the next free slot.                      *)
StoreInEveryFreeSlot(c) ==
  /\ initialized
  /\ Free # {}
  /\ nvs' = [j \in Slot |-> IF j \in Free THEN c ELSE nvs[j]]
  /\ UNCHANGED initialized

StoreCredential(c) ==
  /\ initialized
  /\ Free # {}
  /\ nvs' = PutBytes(Min(Free), c)
  /\ UNCHANGED initialized

(* storage_store_credential returning false: the store is closed, it is    *)
(* full, or the write of the blob failed.                                  *)
StoreCredentialFails(written) ==
  /\ ~initialized \/ Free = {} \/ ~written
  /\ UNCHANGED storageVars

(* storage_update_sign_count: the result of the write is not looked at.    *)
(* The mutants keep one bit of the counter, and forget the flash.          *)
UpdateTruncated(id, n, written) ==
  /\ nvs' = IF initialized /\ Named(id) # {} /\ written
            THEN [nvs EXCEPT ![Min(Named(id))].sign_count = n % 2]
            ELSE nvs
  /\ UNCHANGED initialized
UpdateInRamOnly(id, n, written) == UNCHANGED storageVars

UpdateSignCount(id, n, written) ==
  /\ nvs' = IF initialized /\ Named(id) # {} /\ written
            THEN [nvs EXCEPT ![Min(Named(id))].sign_count = n]
            ELSE nvs
  /\ UNCHANGED initialized

(* The mutant removes the key of the first slot only.                      *)
ResetFirstKeyOnly(cleared) ==
  /\ nvs' = IF initialized /\ cleared THEN [i \in DOMAIN nvs \ {0} |-> nvs[i]] ELSE nvs
  /\ UNCHANGED initialized

(* storage_reset: prefs.clear() removes every key, or fails unnoticed.     *)
StorageReset(cleared) ==
  /\ nvs' = IF initialized /\ cleared THEN [i \in {} |-> 0] ELSE nvs
  /\ UNCHANGED initialized

(* Power is lost and returns: RAM is gone, flash is not.                   *)
PowerLoss == initialized' = FALSE /\ UNCHANGED nvs

-----------------------------------------------------------------------------
(* The store driven by any caller that draws fresh identifiers and stores  *)
(* only valid credentials, as ctap2_make_credential does.                  *)
StoreInit == nvs = [i \in {} |-> 0] /\ initialized = FALSE

StoreFresh == \E id \in CredIds \ StoredIds, rp \in Rps :
                StoreCredential([valid |-> TRUE, id |-> id, rp |-> rp, sign_count |-> 0])
UpdateAny == \E id \in CredIds, n \in Counter, written \in BOOLEAN :
                UpdateSignCount(id, n, written)
ResetAny == \E cleared \in BOOLEAN : StorageReset(cleared)
Open == \E ok \in BOOLEAN : ~initialized /\ StorageInit(ok)

StoreNext == StoreFresh \/ UpdateAny \/ ResetAny \/ Open \/ PowerLoss

StoreSpec == StoreInit /\ [][StoreNext]_storageVars

-----------------------------------------------------------------------------
(* Types: the keys present are slot numbers, the blobs are credentials.    *)
StoreTypeOK ==
  /\ DOMAIN nvs \subseteq Slot
  /\ \A i \in DOMAIN nvs : nvs[i] \in Credential
  /\ initialized \in BOOLEAN

(* No two slots hold the same credential identifier, so the first match of *)
(* storage_update_sign_count is the credential that was looked up.         *)
UniqueIds == \A i, j \in DOMAIN nvs : nvs[i].id = nvs[j].id => i = j

(* A credential keeps its slot, identity and relying party until a reset   *)
(* erases all of them at once: no store, update, power loss or failed      *)
(* write drops, moves or re-binds one.                                     *)
Keeps == \/ \A i \in DOMAIN nvs : /\ i \in DOMAIN nvs'
                                  /\ nvs'[i].id = nvs[i].id
                                  /\ nvs'[i].rp = nvs[i].rp
         \/ DOMAIN nvs' = {}
CredentialsKept == [][Keeps]_storageVars

(* The store implements the vault: slots, search order and failed writes   *)
(* disappear.                                                              *)
EntryOf(c) == [id |-> c.id, rp |-> c.rp, sign_count |-> c.sign_count]
Contents == {EntryOf(nvs[i]) : i \in DOMAIN nvs}
V == INSTANCE CredentialVault WITH vault <- Contents, Capacity <- MAX_CREDENTIALS
VaultSpec == V!Spec

=============================================================================
