----------------------------- MODULE AccountVault -----------------------------
(***************************************************************************)
(* The value kept in accounts.json and the operations on it                *)
(* (crates/cmdcode-core/src/accounts.rs).  An account is its id(); the     *)
(* keys, names and timestamps that come with it are not modelled.          *)
(***************************************************************************)
EXTENDS Filtering, SequencesExt

CONSTANTS Accounts,      \* ids of all accounts that can ever be signed in
          NoAccount      \* `active: None`

ASSUME VaultAssumption == NoAccount \notin Accounts

Vaults == [accounts : Seq(Accounts), active : Accounts \union {NoAccount}, auto : BOOLEAN]

EmptyVault == [accounts |-> <<>>, active |-> NoAccount, auto |-> FALSE]

Ids(v) == ToSet(v.accounts)

(* active_account(): the stored account `active` names, or none.           *)
ActiveAccount(v) == IF v.active \in Ids(v) THEN v.active ELSE NoAccount

(* set_active: only a stored account can be activated.                     *)
CanActivate(v, id) == id \in Ids(v)
SetActive(v, id)   == [v EXCEPT !.active = id]

(* add: refused for a known id; the first account becomes active.          *)
CanAdd(v, id) == id \notin Ids(v)
AddAccount(v, id) ==
    [v EXCEPT !.accounts = Append(@, id),
              !.active   = IF v.accounts = <<>> /\ v.active = NoAccount THEN id ELSE @]

(* Faulty variant: the active pointer is left where it was. *)
RemoveAccountsOnly(v, ids) ==
    [v EXCEPT !.accounts = Filter(@, Ids(v) \ ids)]

(* remove: when the active account goes, the first remaining one takes over. *)
RemoveAccounts(v, ids) ==
    LET left == Filter(v.accounts, Ids(v) \ ids)
    IN  [v EXCEPT !.accounts = left,
                  !.active   = IF v.active \notin ids THEN @
                               ELSE IF left = <<>> THEN NoAccount ELSE left[1]]

(* rotate_next: nothing to rotate to with fewer than two accounts, ...     *)
CanRotate(v) == Len(v.accounts) > 1

(* Faulty variants: the active account itself, always the second one, and  *)
(* a rotation of the list.                                                 *)
RotateToSame(v)   == v
RotateToSecond(v) == [v EXCEPT !.active = v.accounts[2]]
RotateList(v)     == [v EXCEPT !.accounts = Append(Tail(@), Head(@)), !.active = v.accounts[2]]

(* ... else the account after the active one, or after the first when      *)
(* `active` names none.                                                    *)
RotateNext(v) ==
    LET n   == Len(v.accounts)
        pos == IF v.active \in Ids(v)
               THEN CHOOSE i \in 1..n : /\ v.accounts[i] = v.active
                                        /\ \A j \in 1..(i - 1) : v.accounts[j] # v.active
               ELSE 1
    IN  [v EXCEPT !.active = v.accounts[(pos % n) + 1]]

(* What every operation keeps: ids are unique, `active` names a stored     *)
(* account, and there is an active account when there is any.              *)
WellFormed(v) ==
    /\ \A i, j \in DOMAIN v.accounts : v.accounts[i] = v.accounts[j] => i = j
    /\ v.active # NoAccount => v.active \in Ids(v)
    /\ v.accounts # <<>> => v.active # NoAccount
=============================================================================
