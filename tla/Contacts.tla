-------------------------------- MODULE Contacts --------------------------------
(***************************************************************************)
(* The contacts of a tenant: the routes of the CRM and of the public API,  *)
(* the import that the API does itself or leaves to the worker, and the    *)
(* contacts a campaign takes (tenant/contacts.ts, v1/contacts.ts,          *)
(* worker/src/index.ts:120-184 and the two routes that add contacts to a   *)
(* campaign).  Three functions normalise a phone number, each its own way. *)
(***************************************************************************)
EXTENDS Naturals, FiniteSets

CONSTANTS Subscribers,  \* Angolan numbers, without country code
          Foreign,      \* numbers of eleven digits or more of elsewhere
          Imports,      \* imports that may be left to the worker
          Additions,    \* requests that add contacts to the campaign
          MaxFaults     \* bound on failed upserts and stopped workers

VARIABLES rows,      \* the Contact rows, by their unique phone
          notNational, \* phones that the worker or the public API created
          imports,   \* the rows of each queued import still to be stored
          campaign,  \* "DRAFT" or "RUNNING"
          taken,     \* the contacts of the campaign
          additions, \* what each request found valid, before it stores it
          contactFaults

contactVars == <<rows, notNational, imports, campaign, taken, additions, contactFaults>>

(* What a caller writes: a number and the way it is written. *)
Written == ({"national", "cc", "idd"} \X Subscribers) \cup ({"abroad"} \X Foreign)
Angolan(raw) == raw[1] # "abroad"

(* What is stored: the number with the prefix it was given. *)
Phones == ({"national", "+244"} \X Subscribers) \cup ({"+"} \X Foreign)
NoPhone == <<"none", "none">>

(* normalizePhone of the CRM's routes: nine digits, and nothing else. *)
CrmPhone(raw) == IF Angolan(raw) THEN <<"national", raw[2]>> ELSE NoPhone

\* Mutant: a number written with its country code keeps it.
CrmPhoneKeepsCode(raw) ==
  CASE raw[1] = "cc" -> <<"+244", raw[2]>>
    [] Angolan(raw) -> <<"national", raw[2]>>
    [] OTHER -> NoPhone

NationalPhone(raw) == CrmPhone(raw)

(* normalizePhone of the worker and of the public API: with the country code. *)
WorkerPhone(raw) == IF Angolan(raw) THEN <<"+244", raw[2]>> ELSE <<"+", raw[2]>>
PublicPhone(raw) == IF Angolan(raw) THEN <<"+244", raw[2]>> ELSE <<"+", raw[2]>>

Stored == DOMAIN rows
NoImport == {<<"none", "none">>}
NoAddition == {NoPhone}

ContactsInit ==
  /\ rows = [p \in {} |-> FALSE] /\ notNational = {}
  /\ imports = [i \in Imports |-> NoImport]
  /\ campaign = "DRAFT" /\ taken = {}
  /\ additions = [a \in Additions |-> NoAddition]
  /\ contactFaults = 0

OfRows == UNCHANGED <<imports, campaign, taken, additions, contactFaults>>
ContactFault == contactFaults < MaxFaults /\ contactFaults' = contactFaults + 1

----------------------------------------------------------------------------
(* A row is TRUE once its contact opted out; an upsert leaves that alone. *)
Upsert(phones) == rows' = [p \in Stored \cup phones |-> IF p \in Stored THEN rows[p] ELSE FALSE]

CreateContact(raw) ==
  /\ NationalPhone(raw) # NoPhone
  /\ Upsert({NationalPhone(raw)})
  /\ UNCHANGED notNational /\ OfRows

(* The phone a contact is changed to must be free: read first, then unique. *)
PatchContact(p, raw) ==
  /\ p \in Stored /\ NationalPhone(raw) \notin Stored \cup {NoPhone}
  /\ rows' = [q \in (Stored \ {p}) \cup {NationalPhone(raw)} |-> IF q \in Stored THEN rows[q] ELSE rows[p]]
  /\ taken' = IF p \in taken THEN (taken \ {p}) \cup {NationalPhone(raw)} ELSE taken
  /\ additions' = [a \in Additions |-> IF p \in additions[a]
                     THEN (additions[a] \ {p}) \cup {NationalPhone(raw)} ELSE additions[a]]
  /\ notNational' = notNational \ {p}
  /\ UNCHANGED <<imports, campaign, contactFaults>>

(* A campaign's contact keeps its Contact from being deleted. *)
RemoveContact(p) == /\ p \in Stored \ taken
             /\ rows' = [q \in Stored \ {p} |-> rows[q]]
             /\ notNational' = notNational \ {p}
             /\ additions' = [a \in Additions |-> IF p \in additions[a]
                                THEN additions[a] \ {p} ELSE additions[a]]
             /\ UNCHANGED <<imports, campaign, taken, contactFaults>>
DeleteContact(p) == RemoveContact(p)
DeletePublicContact(p) == RemoveContact(p)

OptOut(p) == /\ p \in Stored /\ ~rows[p]
             /\ rows' = [rows EXCEPT ![p] = TRUE]
             /\ UNCHANGED notNational /\ OfRows

CreatePublicContact(raw) ==
  /\ Upsert({PublicPhone(raw)})
  /\ notNational' = notNational \cup ({PublicPhone(raw)} \ Stored)
  /\ OfRows

----------------------------------------------------------------------------
(* The import keeps the rows whose phone is one, under the phone it gave   *)
(* them.  A small file is stored at once, rows that fail left out; a large *)
(* one is queued.                                                          *)
Valid(file) == {NationalPhone(raw) : raw \in {r \in file : NationalPhone(r) # NoPhone}}

ImportInline(file) ==
  /\ \E lost \in SUBSET Valid(file) :
       /\ IF lost = {} THEN UNCHANGED contactFaults ELSE ContactFault
       /\ Upsert(Valid(file) \ lost)
  /\ UNCHANGED <<notNational, imports, campaign, taken, additions>>

ImportQueued(i, file) ==
  /\ imports[i] = NoImport /\ Valid(file) # {}
  /\ imports' = [imports EXCEPT ![i] = Valid(file)]
  /\ UNCHANGED <<rows, notNational, campaign, taken, additions, contactFaults>>

(* The worker normalises again what the API had normalised, and stores the *)
(* rows of a batch in any order; one that fails is counted and left out.   *)
ImportRow(i, p) ==
  /\ p \in imports[i] /\ p # NoPhone
  /\ LET phone == WorkerPhone(p)
         rest == imports[i] \ {p} IN
       /\ \/ /\ Upsert({phone})
             /\ notNational' = notNational \cup ({phone} \ Stored)
             /\ UNCHANGED contactFaults
          \/ ContactFault /\ UNCHANGED <<rows, notNational>>
       /\ imports' = [imports EXCEPT ![i] = IF rest = {} THEN NoImport ELSE rest]
  /\ UNCHANGED <<campaign, taken, additions>>

(* A job whose worker stopped is started again from its first row. *)
ImportAgain(i, p) ==
  /\ imports[i] # NoImport /\ ContactFault
  /\ p \in {q \in Phones : q[1] = "national"} \ imports[i]
  /\ imports' = [imports EXCEPT ![i] = @ \cup {p}]
  /\ UNCHANGED <<rows, notNational, campaign, taken, additions>>

----------------------------------------------------------------------------
(* Adding contacts to a campaign: those that exist and did not opt out are *)
(* read, then stored.                                                      *)
ReadAddition(a, phones) ==
  /\ additions[a] = NoAddition /\ campaign = "DRAFT"
  /\ additions' = [additions EXCEPT ![a] = {p \in phones \cap Stored : ~rows[p]}]
  /\ UNCHANGED <<rows, notNational, imports, campaign, taken, contactFaults>>

AddContacts(a, phones) == ReadAddition(a, phones)
AddPublicContacts(a, phones) == ReadAddition(a, phones)

SameNumber(p, q) == p[2] = q[2]

StoreAddition(a) ==
  /\ additions[a] # NoAddition
  /\ taken' = taken \cup additions[a]
  /\ additions' = [additions EXCEPT ![a] = NoAddition]
  /\ UNCHANGED <<rows, notNational, imports, campaign, contactFaults>>

StartCampaign == /\ campaign = "DRAFT" /\ taken # {}
                 /\ campaign' = "RUNNING"
                 /\ UNCHANGED <<rows, notNational, imports, taken, additions, contactFaults>>

Files == {{raw} : raw \in Written} \cup {{<<"national", s>> : s \in Subscribers}}

ContactsNext ==
  \/ \E raw \in Written :
       \/ CreateContact(raw) \/ CreatePublicContact(raw)
       \/ \E p \in Stored : PatchContact(p, raw)
  \/ \E p \in Stored : DeleteContact(p) \/ DeletePublicContact(p) \/ OptOut(p)
  \/ \E file \in Files : ImportInline(file) \/ \E i \in Imports : ImportQueued(i, file)
  \/ \E i \in Imports, p \in Phones : ImportRow(i, p) \/ ImportAgain(i, p)
  \/ \E a \in Additions, p \in Stored : AddContacts(a, {p}) \/ AddPublicContacts(a, {p})
  \/ \E a \in Additions : StoreAddition(a)
  \/ StartCampaign

ContactsSpec == ContactsInit /\ [][ContactsNext]_contactVars

----------------------------------------------------------------------------
(* Every part of the state has its type. *)
ContactsTypeOK ==
  /\ Stored \subseteq Phones /\ notNational \subseteq Stored
  /\ taken \subseteq Stored
  /\ \A i \in Imports : imports[i] \subseteq Phones \cup {NoPhone}
  /\ \A a \in Additions : additions[a] \subseteq Stored \cup {NoPhone}

(***************************************************************************)
(* A number is in two contacts only if the public API or the worker stored *)
(* one of them: among the contacts of the CRM's own routes, whatever the   *)
(* way it was written, a number is one contact                             *)
(* (tenant/contacts.ts:23-34 and its unique key).                          *)
(***************************************************************************)
SecondContactHasACause ==
  \A p, q \in Stored : SameNumber(p, q) /\ p # q => {p, q} \cap notNational # {}
=============================================================================
