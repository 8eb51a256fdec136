----------------------------- MODULE WalletStore -----------------------------
(***************************************************************************)
(* The wallet database: internal/storage/wallet_storage.go, as the command *)
(* cmd/wallet opens it.  LevelDB lets one process at a time have it open,  *)
(* and a process makes one call after the other.  Every write is a step,   *)
(* may fail, and may be the last one before the process dies.              *)
(*                                                                         *)
(* A wallet is kept under a key of its own, and its address in one list    *)
(* under another key, so saving and clearing take several writes.          *)
(***************************************************************************)
EXTENDS Integers, Sequences, SequencesExt

CONSTANTS
    Address,  \* addresses of wallets
    MaxFaults \* bound on the writes that fail and the processes that die

VARIABLES
    wallets, \* the addresses that have a "wallet_" key
    list,    \* what is under the key "addresses"; empty if there is no key
    op,      \* the call under way: [name, at, address, rest]
    faults,  \* how often a write has failed or the process has died
    kept,    \* history: addresses saved with success, and not removed since
    cut      \* history: a SaveWallet has ended between its two writes

storeVars == <<wallets, list, op, faults, kept, cut>>

NoOp == [name |-> "none", at |-> "none", address |-> "", rest |-> <<>>]

(* WalletExists, and the address GetWallet decodes: no key, an error.      *)
WalletExists(a) == a \in wallets

GetWallet(a) == IF WalletExists(a) THEN <<a>> ELSE <<>>

(* GetAllAddresses: empty if there is no list.  "wallet list" shows them.  *)
GetAllAddresses == list

-----------------------------------------------------------------------------
StoreInit ==
    /\ wallets = {} /\ list = <<>>
    /\ op = NoOp
    /\ faults = 0 /\ kept = {} /\ cut = FALSE

(* SaveWallet of a new wallet, or again of one that is there.              *)
SaveWallet(a) ==
    /\ op = NoOp
    /\ op' = [NoOp EXCEPT !.name = "save", !.at = "wallet", !.address = a]
    /\ UNCHANGED <<wallets, list, faults, kept, cut>>

PutWallet ==
    /\ op.at = "wallet"
    /\ wallets' = wallets \cup {op.address}
    /\ op' = [op EXCEPT !.at = "list"]
    /\ UNCHANGED <<list, faults, kept, cut>>

(* Not the code: the list is not read before it is written.                *)
AddAddressAlone ==
    /\ op.name = "save" /\ op.at = "list"
    /\ list' = <<op.address>>
    /\ kept' = kept \cup {op.address}
    /\ op' = NoOp
    /\ UNCHANGED <<wallets, faults, cut>>

(* addAddress: the list is read and, unless the address is in it, written  *)
(* back with the address at its end.                                       *)
AddAddress ==
    /\ op.name = "save" /\ op.at = "list"
    /\ list' = IF Contains(GetAllAddresses, op.address) THEN list
               ELSE Append(GetAllAddresses, op.address)
    /\ kept' = kept \cup {op.address}
    /\ op' = NoOp
    /\ UNCHANGED <<wallets, faults, cut>>

(* DeleteWallet leaves the address in the list.                            *)
DeleteWallet(a) ==
    /\ op = NoOp
    /\ wallets' = wallets \ {a}
    /\ kept' = kept \ {a}
    /\ UNCHANGED <<list, op, faults, cut>>

(* Not the code: the list goes first.                                      *)
ClearListFirst ==
    /\ op = NoOp
    /\ op' = [NoOp EXCEPT !.name = "clear", !.at = "delete", !.rest = GetAllAddresses]
    /\ list' = <<>>
    /\ kept' = {}
    /\ UNCHANGED <<wallets, faults, cut>>

(* Clear reads the list ...                                                *)
Clear ==
    /\ op = NoOp
    /\ op' = [NoOp EXCEPT !.name = "clear", !.at = "delete", !.rest = GetAllAddresses]
    /\ kept' = {}
    /\ UNCHANGED <<wallets, list, faults, cut>>

(* ... deletes each wallet in it ...                                       *)
ClearNext ==
    /\ op.at = "delete" /\ op.rest # <<>>
    /\ wallets' = wallets \ {Head(op.rest)}
    /\ op' = [op EXCEPT !.rest = Tail(@)]
    /\ UNCHANGED <<list, faults, kept, cut>>

(* ... and then the list.                                                  *)
ClearList ==
    /\ op.at = "delete" /\ op.rest = <<>>
    /\ list' = <<>>
    /\ op' = NoOp
    /\ UNCHANGED <<wallets, faults, kept, cut>>

(* A write fails and the call returns its error, or the process dies: what *)
(* has been written stays.                                                 *)
CutShort ==
    /\ op # NoOp
    /\ faults < MaxFaults
    /\ faults' = faults + 1
    /\ cut' = (cut \/ (op.name = "save" /\ op.at = "list"))
    /\ op' = NoOp
    /\ UNCHANGED <<wallets, list, kept>>

StoreNext ==
    \/ \E a \in Address : SaveWallet(a) \/ DeleteWallet(a)
    \/ PutWallet \/ AddAddress
    \/ Clear \/ ClearNext \/ ClearList
    \/ CutShort

StoreSpec == StoreInit /\ [][StoreNext]_storeVars

-----------------------------------------------------------------------------
(* A wallet that was saved with success can be read, and is listed once,   *)
(* until it is removed, whatever other calls fail or are cut short.        *)
SavedIsListed ==
    \A a \in kept :
        /\ GetWallet(a) = <<a>>
        /\ LET shown == GetAllAddresses
           IN \E i \in DOMAIN shown : \A j \in DOMAIN shown : shown[j] = a <=> j = i

(* Every wallet in the database can be found through the list, so that it  *)
(* is shown by "wallet list" and Clear leaves nothing behind; but for the  *)
(* one that is being saved, and after a save that was cut short.           *)
OnlyCutIsHidden ==
    cut \/ wallets \subseteq ToSet(GetAllAddresses)
                             \cup (IF op.name = "save" THEN {op.address} ELSE {})
=============================================================================
