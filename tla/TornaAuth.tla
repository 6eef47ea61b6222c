------------------------------ MODULE TornaAuth ------------------------------
(***************************************************************************)
(* Who may write a tree: the header's authority and the delegate accounts  *)
(* of sbf/src/torna/torna.c.                                               *)
(*                                                                         *)
(* A delegate account is a program address of the tree's creator and id    *)
(* with a bump the caller chose, so one tree can have several; List is the *)
(* set of those addresses.  Accounts of other trees fail the PDA check and *)
(* are left out.  Every check asks whether some signer qualifies, so a     *)
(* transaction is modelled with one signer.                                *)
(***************************************************************************)
EXTENDS Naturals, Sequences, Functions

CONSTANTS Address,       \* keys that can sign
          Zero,          \* the all-zero key, which never signs
          List,          \* delegate accounts of the tree
          MaxDelegates   \* MAX_DELEGATES, 8 in the program

ASSUME ZeroAssumption == Zero \notin Address
ASSUME LimitAssumption == MaxDelegates \in Nat \ {0}

VARIABLES authority,     \* header: authority
          lists,         \* delegate accounts that exist: [authorizing, delegates]
          granted        \* history, by list: who last added whom and did not remove him

authVars == <<authority, lists, granted>>

(* The payer of InitTree is the first authority. *)
AuthInit ==
    /\ authority \in Address
    /\ lists = [l \in {} |-> 0]
    /\ granted = [l \in List |-> {}]

(* A tree of the zero authority is open to all; TransferAuthority refuses  *)
(* to make one.                                                            *)
IsPrimary(s) == authority = Zero \/ s = authority

(* One delegate account's say in tx_has_authorized_signer. *)
HonouredBy(l, s) ==
    /\ lists[l].authorizing = authority
    /\ s \in Range(lists[l].delegates)

MayWrite(s) == IsPrimary(s) \/ \E l \in DOMAIN lists : HonouredBy(l, s)

TransferAuthority(s, new) ==
    /\ IsPrimary(s)
    /\ new # Zero
    /\ authority' = new
    /\ UNCHANGED <<lists, granted>>

(* The account as AddDelegate finds it, or a zeroed new one. *)
Existing(l) == IF l \in DOMAIN lists THEN lists[l] ELSE [authorizing |-> Zero, delegates |-> <<>>]

(* A list stamped by another authority is stale: cleared and restamped.    *)
RestampedKept(l) == [Existing(l) EXCEPT !.authorizing = authority]

Restamped(l) ==
    IF Existing(l).authorizing = authority THEN Existing(l)
    ELSE [authorizing |-> authority, delegates |-> <<>>]

WithDelegateAgain(ds, d) == Append(ds, d)

(* Adding a delegate twice changes nothing. *)
WithDelegate(ds, d) == IF d \in Range(ds) THEN ds ELSE Append(ds, d)

AddDelegate(s, l, d) ==
    /\ IsPrimary(s)
    /\ Len(WithDelegate(Restamped(l).delegates, d)) <= MaxDelegates
    /\ lists' = [m \in DOMAIN lists \cup {l} |->
                    IF m = l
                    THEN [authorizing |-> authority,
                          delegates   |-> WithDelegate(Restamped(l).delegates, d)]
                    ELSE lists[m]]
    /\ granted' = [granted EXCEPT ![l] = @ \cup {<<authority, d>>}]
    /\ UNCHANGED authority

(* The entries after the i-th move down by one. *)
Without(ds, i) == [j \in 1..Len(ds) - 1 |-> IF j < i THEN ds[j] ELSE ds[j + 1]]

RemoveDelegate(s, l, d) ==
    /\ IsPrimary(s)
    /\ l \in DOMAIN lists
    /\ lists[l].authorizing = authority
    /\ \E i \in DOMAIN lists[l].delegates :
        /\ lists[l].delegates[i] = d
        /\ \A j \in 1..i - 1 : lists[l].delegates[j] # d
        /\ lists' = [lists EXCEPT ![l].delegates = Without(@, i)]
    /\ granted' = [granted EXCEPT ![l] = @ \ {<<authority, d>>}]
    /\ UNCHANGED authority

AuthNext ==
    \E s \in Address :
        \/ \E new \in Address \cup {Zero} : TransferAuthority(s, new)
        \/ \E l \in List, d \in Address : AddDelegate(s, l, d) \/ RemoveDelegate(s, l, d)

AuthSpec == AuthInit /\ [][AuthNext]_authVars

---------------------------------------------------------------------------
(* Properties *)

(* A tree never falls open, and what is stored has its type.               *)
AuthTypeOK ==
    /\ authority \in Address
    /\ DOMAIN lists \subseteq List
    /\ lists \in [DOMAIN lists -> [authorizing : Address, delegates : Seq(Address)]]
    /\ granted \in [List -> SUBSET (Address \X Address)]

(* The inductive strengthening: what a list holds is what its stamp's      *)
(* owner added and did not remove, each once.  (Held twice, a delegate     *)
(* would survive its removal.)                                             *)
ListsAreGrants ==
    \A l \in DOMAIN lists :
        /\ IsInjective(lists[l].delegates)
        /\ \A d \in Range(lists[l].delegates) : <<lists[l].authorizing, d>> \in granted[l]

(* A signer that is let write on the word of a delegate account was added  *)
(* to it by the authority of this moment, who did not remove him since:    *)
(* no delegate of an earlier owner outlives TransferAuthority, through     *)
(* restamped lists, several lists, and transfers back and forth.           *)
HonouredWasGranted ==
    \A l \in DOMAIN lists : \A s \in Address :
        HonouredBy(l, s) => <<authority, s>> \in granted[l]
=============================================================================
