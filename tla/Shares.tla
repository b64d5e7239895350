------------------------------- MODULE Shares -------------------------------
(***************************************************************************)
(* The link of one package: its owner enables, changes and disables it     *)
(* (shares.py), recipients of a restricted link ask for a one-time code by *)
(* email, trade it for a token, and download with it (public.py). Each     *)
(* request reads, decides and then commits; requests of several tabs, and  *)
(* of several recipients, interleave. A commit writes only the columns that the request changed,  *)
(* as the ORM does. Foreign keys are enforced and row ids are not reused   *)
(* (PostgreSQL).                                                           *)
(***************************************************************************)
EXTENDS Naturals, Sequences, FiniteSets, Functions

CONSTANTS
  Emails,       \* normalised addresses
  Tabs,         \* threads that run the owner's requests
  Guests,       \* threads that run the recipients' requests
  MaxTries,     \* share_verification_max_attempts
  MaxLinks,     \* bounds for TLC: links made of the package,
  MaxCodes,     \* codes issued,
  MaxAtOnce     \* and requests under way at once

ASSUME ConstantsAssumption ==
  /\ Emails # {}
  /\ MaxTries \in Nat \ {0} /\ MaxLinks \in Nat /\ MaxCodes \in Nat /\ MaxAtOnce \in Nat

VARIABLES
  smtp,     \* email_verification_enabled
  share,    \* the package's row in shares; its link is 0 when there is none
  links,    \* how many links were made: each has a token of its own
  allow,    \* the allow-list's rows
  codes,    \* per email: its row in share_access_codes
  edit,     \* per tab: the request it has read for and not yet committed
  job,      \* per guest: likewise
  fetch,    \* per guest: the download it runs
  inbox,    \* codes that reached the mailbox they were meant for
  issued,   \* history: per code, the link and the email it was made for
  tokens,   \* history: the tokens granted, with the codes they were granted for
  grants,   \* history: per code, the tokens granted for it
  misses,   \* history: per code, the wrong guesses judged against it
  skewed,   \* history: two updates of the link have overlapped
  mixed     \* history: emails for which two recipients' requests have overlapped

linkVars  == <<share, links, allow>>
guestVars == <<job, inbox, issued, tokens, grants, misses, mixed>>
vars == <<smtp, linkVars, codes, edit, guestVars, skewed, fetch>>

-----------------------------------------------------------------------------

\* live: enabled, and not past its expiry.
NoShare == [link |-> 0, restricted |-> FALSE, live |-> FALSE]
NoRow   == [id |-> 0, code |-> 0, tries |-> 0, expired |-> FALSE]
NoEdit  == [op |-> "none", link |-> 0, write |-> [c \in {} |-> FALSE], add |-> {}, remove |-> {}]
NoFetch == [op |-> "none", link |-> 0, email |-> CHOOSE e \in Emails : TRUE]
NoJob   == [op |-> "none", email |-> CHOOSE e \in Emails : TRUE, link |-> 0, row |-> NoRow]

Wrong == 0   \* a guess that is no code

\* create_share_access_token; the code is history, the token does not hold it.
Token(link, e, n) == [link |-> link, email |-> e, code |-> n]

\* verify_verification_code: the hash that is stored is of one code for one share
\* and address.
Matches(row, guess) == row.code = guess

\* _get_active_share
Active == share.link # 0 /\ share.live

\* _require_restricted_has_emails
KeepsAnEmail(restricted, emails) == restricted => emails # {}

\* What a request writes: values for some columns of the row.
Columns == {"restricted", "live"}
Values(restricted, live) == [c \in Columns |-> IF c = "restricted" THEN restricted ELSE live]

Changes(restricted, live) ==
  Restrict(Values(restricted, live),
           {c \in Columns : Values(restricted, live)[c] # Values(share.restricted, share.live)[c]})

Written(row, write) ==
  [row EXCEPT !.restricted = IF "restricted" \in DOMAIN write THEN write["restricted"] ELSE @,
              !.live = IF "live" \in DOMAIN write THEN write["live"] ELSE @]

\* _apply_emails reconciles the list in place.
Added(emails) == emails \ allow
Removed(emails) == allow \ emails

Busy(o) == edit[o].op # "none"
Serving(g) == job[g].op # "none"
Fetching(g) == fetch[g].op # "none"

RoomForOneMore ==
  Cardinality({o \in Tabs : Busy(o)}) + Cardinality({g \in Guests : Serving(g)})
    + Cardinality({g \in Guests : Fetching(g)}) < MaxAtOnce

Begin(o, e) ==
  /\ RoomForOneMore
  /\ edit' = [edit EXCEPT ![o] = e]
  /\ skewed' = (skewed \/ (e.op = "update" /\ \E other \in Tabs : edit[other].op = "update"))

End(o) == edit' = [edit EXCEPT ![o] = NoEdit] /\ UNCHANGED skewed

Take(g, j) ==
  /\ RoomForOneMore
  /\ job' = [job EXCEPT ![g] = j]
  /\ mixed' = IF \E other \in Guests : Serving(other) /\ job[other].email = j.email
              THEN mixed \union {j.email} ELSE mixed

Leave(g) == job' = [job EXCEPT ![g] = NoJob] /\ UNCHANGED mixed

-----------------------------------------------------------------------------
(* The owner's requests. *)

\* enable_share finds no share and builds one (its expiry may be past already).
ReadForEnable(o) ==
  /\ ~Busy(o)
  /\ share.link = 0
  /\ links < MaxLinks
  /\ \E r, live \in BOOLEAN, emails \in SUBSET Emails :
       /\ KeepsAnEmail(r, emails)
       /\ Begin(o, [op |-> "enable", link |-> 0, write |-> Values(r, live),
                    add |-> emails, remove |-> {}])
  /\ UNCHANGED <<smtp, linkVars, codes, guestVars>>

\* A second share of the package breaks a unique constraint: a 500.
CommitEnable(o) ==
  /\ edit[o].op = "enable"
  /\ links < MaxLinks \/ share.link # 0
  /\ IF share.link = 0
     THEN /\ links' = links + 1
          /\ share' = [Written(share, edit[o].write) EXCEPT !.link = links + 1]
          /\ allow' = edit[o].add
     ELSE UNCHANGED linkVars
  /\ End(o)
  /\ UNCHANGED <<smtp, codes, guestVars>>

\* Slip: the check comes before the changes.
CheckThenUpdate(o) ==
  /\ ~Busy(o)
  /\ share.link # 0
  /\ KeepsAnEmail(share.restricted, allow)
  /\ \E r, live \in BOOLEAN, emails \in SUBSET Emails :
       Begin(o, [op |-> "update", link |-> share.link,
                 write |-> Values(r, live),
                 add |-> Added(emails), remove |-> Removed(emails)])
  /\ UNCHANGED <<smtp, linkVars, codes, guestVars>>

\* update_share changes the row it has read, in memory, and checks it there.
ReadForUpdate(o) ==
  /\ ~Busy(o)
  /\ share.link # 0
  /\ \E r, live \in BOOLEAN, emails \in SUBSET Emails :
       /\ KeepsAnEmail(r, emails)
       /\ Begin(o, [op |-> "update", link |-> share.link, write |-> Changes(r, live),
                    add |-> Added(emails), remove |-> Removed(emails)])
  /\ UNCHANGED <<smtp, linkVars, codes, guestVars>>

\* Only what changed is written. A row that has gone, or an address that has
\* been added meanwhile, fails the transaction.
CommitUpdate(o) ==
  /\ edit[o].op = "update"
  /\ IF share.link = edit[o].link /\ edit[o].add \cap allow = {}
     THEN /\ share' = Written(share, edit[o].write)
          /\ allow' = (allow \ edit[o].remove) \union edit[o].add
     ELSE UNCHANGED <<share, allow>>
  /\ End(o)
  /\ UNCHANGED <<smtp, links, codes, guestVars>>

ReadForDisable(o) ==
  /\ ~Busy(o)
  /\ share.link # 0
  /\ Begin(o, [NoEdit EXCEPT !.op = "disable", !.link = share.link])
  /\ UNCHANGED <<smtp, linkVars, codes, guestVars>>

\* The allow-list and the codes go with the share (its own, not a later one's).
CommitDisable(o) ==
  /\ edit[o].op = "disable"
  /\ IF share.link = edit[o].link
     THEN /\ share' = NoShare
          /\ allow' = {}
          /\ codes' = [e \in Emails |-> NoRow]
     ELSE UNCHANGED <<share, allow, codes>>
  /\ End(o)
  /\ UNCHANGED <<smtp, links, guestVars>>

-----------------------------------------------------------------------------
(* access_share *)

\* An address that is not allowed gets the same answer and no code.
ReadForCode(g) ==
  /\ ~Serving(g)
  /\ smtp /\ Active /\ share.restricted
  /\ Len(issued) < MaxCodes
  /\ \E e \in allow :
       Take(g, [op |-> "issue", email |-> e, link |-> share.link, row |-> codes[e]])
  /\ UNCHANGED <<smtp, linkVars, codes, edit, inbox, issued, tokens, grants, misses, skewed>>

\* Slip: the row that is there keeps its code.
IssueCodeOnce(g) ==
  LET e == job[g].email
      n == Len(issued) + 1
  IN /\ job[g].op = "issue"
     /\ n <= MaxCodes
     /\ IF share.link = job[g].link /\ codes[e].id = job[g].row.id
        THEN /\ codes' = IF codes[e] = NoRow
                         THEN [codes EXCEPT ![e] = [NoRow EXCEPT !.id = n, !.code = n]]
                         ELSE codes
             /\ issued' = Append(issued, <<job[g].link, e>>)
             /\ inbox' = inbox \union {n}
        ELSE UNCHANGED <<codes, issued, inbox>>
     /\ Leave(g)
     /\ UNCHANGED <<smtp, linkVars, edit, tokens, grants, misses, skewed>>

\* The row that was read is given the new code (and tries = 0, if that is a
\* change); where there was none, one is inserted.
IssueCode(g) ==
  LET e == job[g].email
      old == job[g].row
      n == Len(issued) + 1
      new == [id    |-> IF old = NoRow THEN n ELSE old.id,
              code  |-> n,
              tries |-> IF old.tries > 0 THEN 0 ELSE codes[e].tries,
              expired |-> FALSE]
  IN /\ job[g].op = "issue"
     /\ n <= MaxCodes
     /\ IF share.link = job[g].link /\ codes[e].id = old.id
        THEN /\ codes' = [codes EXCEPT ![e] = new]
             /\ issued' = Append(issued, <<job[g].link, e>>)
             /\ inbox' = inbox \union {n} \/ UNCHANGED inbox   \* the mail may fail
        ELSE UNCHANGED <<codes, issued, inbox>>
     /\ Leave(g)
     /\ UNCHANGED <<smtp, linkVars, edit, tokens, grants, misses, skewed>>

Grant(g, n) ==
  /\ tokens' = tokens \union {Token(job[g].link, job[g].email, n)}
  /\ grants' = [grants EXCEPT ![n] = @ + 1]

\* Without email, an address on the list is enough.
GrantDirectly(g) ==
  /\ ~Serving(g)
  /\ ~smtp /\ Active /\ share.restricted
  /\ \E e \in allow :
       tokens' = tokens \union {Token(share.link, e, Wrong)}
  /\ UNCHANGED <<smtp, linkVars, codes, edit, job, inbox, issued, grants, misses, skewed, mixed>>

-----------------------------------------------------------------------------
(* verify_share *)

\* Slip: one guess more than the budget is judged.
SubmitOneMore(g) ==
  /\ ~Serving(g)
  /\ smtp /\ Active /\ share.restricted
  /\ \E e \in allow, guess \in inbox \union {Wrong} :
       LET row == codes[e]
           op == IF row.expired \/ row.tries > MaxTries THEN "discard"
                 ELSE IF Matches(row, guess) THEN "consume" ELSE "miss"
       IN /\ row # NoRow
          /\ Take(g, [op |-> op, email |-> e, link |-> share.link, row |-> row])
          /\ misses' = IF op = "miss" /\ misses[row.code] <= MaxTries
                       THEN [misses EXCEPT ![row.code] = @ + 1] ELSE misses
  /\ UNCHANGED <<smtp, linkVars, codes, edit, inbox, issued, tokens, grants, skewed>>

\* The address must be on the list; its row is read and the guess is judged: the
\* row is spent (expired, or out of tries), the guess is right, or it is wrong.
SubmitCode(g) ==
  /\ ~Serving(g)
  /\ smtp /\ Active /\ share.restricted
  /\ \E e \in allow, guess \in inbox \union {Wrong} :
       LET row == codes[e]
           op == IF row.expired \/ row.tries >= MaxTries THEN "discard"
                 ELSE IF Matches(row, guess) THEN "consume" ELSE "miss"
       IN /\ row # NoRow
          /\ Take(g, [op |-> op, email |-> e, link |-> share.link, row |-> row])
          /\ misses' = IF op = "miss" /\ misses[row.code] <= MaxTries
                       THEN [misses EXCEPT ![row.code] = @ + 1] ELSE misses
  /\ UNCHANGED <<smtp, linkVars, codes, edit, inbox, issued, tokens, grants, skewed>>

\* Deleting a row that has gone is no error.
DeleteRow(g) ==
  codes' = IF codes[job[g].email].id = job[g].row.id
           THEN [codes EXCEPT ![job[g].email] = NoRow] ELSE codes

DiscardCode(g) ==
  /\ job[g].op = "discard"
  /\ DeleteRow(g)
  /\ Leave(g)
  /\ UNCHANGED <<smtp, linkVars, edit, inbox, issued, tokens, grants, misses, skewed>>

\* Slip: the code stays.
ConsumeAndKeep(g) ==
  /\ job[g].op = "consume"
  /\ IF share.link = job[g].link THEN Grant(g, job[g].row.code) ELSE UNCHANGED <<tokens, grants>>
  /\ Leave(g)
  /\ UNCHANGED <<smtp, linkVars, codes, edit, inbox, issued, misses, skewed>>

\* Slip: the token is for whatever link the package has now.
ConsumeForCurrentLink(g) ==
  /\ job[g].op = "consume"
  /\ DeleteRow(g)
  /\ grants' = [grants EXCEPT ![job[g].row.code] = @ + 1]
  /\ tokens' = tokens \union {Token(share.link, job[g].email, job[g].row.code)}
  /\ Leave(g)
  /\ UNCHANGED <<smtp, linkVars, edit, inbox, issued, misses, skewed>>

\* The token is made from the share's row, which is read once more after the commit.
ConsumeCode(g) ==
  /\ job[g].op = "consume"
  /\ DeleteRow(g)
  /\ IF share.link = job[g].link THEN Grant(g, job[g].row.code) ELSE UNCHANGED <<tokens, grants>>
  /\ Leave(g)
  /\ UNCHANGED <<smtp, linkVars, edit, inbox, issued, misses, skewed>>

\* Slip: the miss is not committed.
ForgetMiss(g) ==
  /\ job[g].op = "miss"
  /\ Leave(g)
  /\ UNCHANGED <<smtp, linkVars, codes, edit, inbox, issued, tokens, grants, misses, skewed>>

\* attempts is written as one more than what was read; no row, no update.
CountMiss(g) ==
  /\ job[g].op = "miss"
  /\ codes' = IF codes[job[g].email].id = job[g].row.id
              THEN [codes EXCEPT ![job[g].email].tries = job[g].row.tries + 1] ELSE codes
  /\ Leave(g)
  /\ UNCHANGED <<smtp, linkVars, edit, inbox, issued, tokens, grants, misses, skewed>>

-----------------------------------------------------------------------------
(* Downloads from a restricted link; a public one asks for nothing. *)

\* Slip: a token opens every link.
AnyToken(link) == tokens

\* The tokens that decode_share_access_token accepts for a link.
TokensFor(link) == {t \in tokens : t.link = link}

\* The share's row is read.
AskForFile(g) ==
  /\ ~Fetching(g)
  /\ RoomForOneMore
  /\ Active /\ share.restricted
  /\ \E t \in TokensFor(share.link) :
       fetch' = [fetch EXCEPT ![g] = [op |-> "ask", link |-> share.link, email |-> t.email]]

\* Then the allow-list's, which have gone if the share has: a token's address must
\* be on the list still.
MayFetch(g) == share.link = fetch[g].link /\ fetch[g].email \in allow

ServeFile(g) ==
  /\ fetch[g].op = "ask"
  /\ MayFetch(g)
  /\ fetch' = [fetch EXCEPT ![g].op = "stream"]

RefuseFile(g) ==
  /\ fetch[g].op = "ask"
  /\ ~MayFetch(g)
  /\ fetch' = [fetch EXCEPT ![g] = NoFetch]

EndOfFile(g) ==
  /\ fetch[g].op = "stream"
  /\ fetch' = [fetch EXCEPT ![g] = NoFetch]

-----------------------------------------------------------------------------
(* Time. *)

LinkExpires ==
  /\ Active
  /\ share' = [share EXCEPT !.live = FALSE]
  /\ UNCHANGED <<smtp, links, allow, codes, edit, guestVars, skewed>>

CodeExpires(e) ==
  /\ codes[e] # NoRow /\ ~codes[e].expired
  /\ codes' = [codes EXCEPT ![e].expired = TRUE]
  /\ UNCHANGED <<smtp, linkVars, edit, guestVars, skewed>>

-----------------------------------------------------------------------------

Init ==
  /\ smtp \in BOOLEAN
  /\ share = NoShare /\ links = 0 /\ allow = {}
  /\ codes = [e \in Emails |-> NoRow]
  /\ edit = [o \in Tabs |-> NoEdit]
  /\ job = [g \in Guests |-> NoJob]
  /\ fetch = [g \in Guests |-> NoFetch]
  /\ inbox = {} /\ issued = <<>> /\ tokens = {}
  /\ grants = [n \in 1 .. MaxCodes |-> 0]
  /\ misses = [n \in 1 .. MaxCodes |-> 0]
  /\ skewed = FALSE /\ mixed = {}

Owner(o) ==
  \/ ReadForEnable(o) \/ CommitEnable(o) \/ ReadForUpdate(o) \/ CommitUpdate(o)
  \/ ReadForDisable(o) \/ CommitDisable(o)

Guest(g) ==
  \/ ReadForCode(g) \/ IssueCode(g) \/ GrantDirectly(g)
  \/ SubmitCode(g) \/ DiscardCode(g) \/ ConsumeCode(g) \/ CountMiss(g)

Download(g) == AskForFile(g) \/ ServeFile(g) \/ RefuseFile(g) \/ EndOfFile(g)

Next ==
  \/ /\ \/ \E o \in Tabs : Owner(o)
        \/ \E g \in Guests : Guest(g)
        \/ LinkExpires
        \/ \E e \in Emails : CodeExpires(e)
     /\ UNCHANGED fetch
  \/ /\ \E g \in Guests : Download(g)
     /\ UNCHANGED <<smtp, linkVars, codes, edit, guestVars, skewed>>

Spec == Init /\ [][Next]_vars

-----------------------------------------------------------------------------
(* Properties *)

ShareRows == [link : 0 .. MaxLinks, restricted : BOOLEAN, live : BOOLEAN]
CodeRows == [id : 0 .. MaxCodes, code : 0 .. MaxCodes, tries : 0 .. MaxTries, expired : BOOLEAN]

Edits ==
  [op : {"none", "enable", "update", "disable"}, link : 0 .. MaxLinks,
   write : UNION {[C -> BOOLEAN] : C \in SUBSET Columns},
   add : SUBSET Emails, remove : SUBSET Emails]
Jobs ==
  [op : {"none", "issue", "discard", "consume", "miss"}, email : Emails,
   link : 0 .. MaxLinks, row : CodeRows]

OwnerTypes ==
  /\ share \in ShareRows
  /\ links \in 0 .. MaxLinks
  /\ allow \subseteq Emails
  /\ edit \in [Tabs -> Edits]
  /\ skewed \in BOOLEAN

GuestTypes ==
  /\ smtp \in BOOLEAN
  /\ codes \in [Emails -> CodeRows]
  /\ job \in [Guests -> Jobs]
  /\ inbox \subseteq 1 .. MaxCodes
  /\ issued \in Seq((1 .. MaxLinks) \X Emails) /\ Len(issued) <= MaxCodes
  /\ tokens \subseteq [link : 1 .. MaxLinks, email : Emails, code : 0 .. MaxCodes]
  /\ grants \in [1 .. MaxCodes -> Nat]
  /\ misses \in [1 .. MaxCodes -> 0 .. MaxTries + 1]
  /\ mixed \subseteq Emails

Fetches == [op : {"none", "ask", "stream"}, link : 0 .. MaxLinks, email : Emails]

TypeOK == OwnerTypes /\ GuestTypes /\ fetch \in [Guests -> Fetches]

\* "Restricted shares must retain at least one allowed email" (shares.py): true as
\* long as no two updates overlap, whatever else does; two that do can each pass
\* the check on what they read and together empty a restricted link's list.
RestrictedHasEmails == ~skewed /\ share.link # 0 => KeepsAnEmail(share.restricted, allow)

\* A token is for the link and the address its code was emailed for, and a file
\* of a restricted link is sent only to an address that has traded a code of this
\* very link, whatever the owner and other recipients do meanwhile.
AccessIsEarned ==
  smtp =>
    /\ \A t \in tokens : t.code # Wrong /\ issued[t.code] = <<t.link, t.email>>
    /\ \A g \in Guests : fetch[g].op = "stream" =>
         \E n \in DOMAIN issued : issued[n] = <<fetch[g].link, fetch[g].email>> /\ grants[n] > 0

\* "A correct code is single-use", and no more than MaxTries wrong guesses are judged
\* against it, unless requests for the same address overlap.
CodesAreSpent ==
  \A n \in DOMAIN issued : issued[n][2] \notin mixed => grants[n] <= 1 /\ misses[n] <= MaxTries

\* A code that has been replaced grants nothing any more, unless requests for the
\* same address overlap.
ReplacedCodesAreDead ==
  [][\A n \in DOMAIN issued :
       grants'[n] > grants[n] /\ issued[n][2] \notin mixed
         => \A later \in n + 1 .. Len(issued) : issued[later] # issued[n]]_vars
=============================================================================
