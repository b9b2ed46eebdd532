-------------------------------- MODULE Desk ---------------------------------
(****************************************************************************)
(* Support tickets (admin/adminsvc over its Postgres repository): their     *)
(* owners and the support staff write in turn, and a status says whose turn *)
(* it is; what staff decide is noted in the audit log afterwards.           *)
(*                                                                          *)
(* A ticket's resolvedAt and crossed are auxiliary: how many messages it    *)
(* had when it was resolved, and whether its last message was added while   *)
(* another one's status was still to be written.                            *)
(****************************************************************************)
EXTENDS Stores, SequencesExt, FiniteSetsExt

VARIABLES
    tickets,    \* admin_support_tickets with their messages, by id
    staff,      \* admin_roles: who may manage support
    audit       \* admin_audit_log: who resolved which ticket

deskVars == <<tickets, staff, audit>>

Unassigned == "unassigned"

Ticket(a) ==
    [owner |-> a, status |-> "open", assigned |-> Unassigned, msgs |-> <<"user">>,
     resolvedAt |-> 0, crossed |-> FALSE]

DeskInit ==
    /\ tickets = <<>>
    /\ staff \in IF Serving({"desk"}) THEN SUBSET AccountIds ELSE {{}}
    /\ audit = {}

(* the ticket and its first message are one transaction *)
CreateTicket(a) ==
    /\ Serve("desk")
    /\ tickets' = Append(tickets, Ticket(a))
    /\ UNCHANGED <<call, staff, audit>>

(* SetRole: an account's role becomes one that includes support, or one that does not *)
SetRole(a) ==
    /\ Serve("desk")
    /\ \E other \in {staff \cup {a}, staff \ {a}} : staff' = other
    /\ UNCHANGED <<call, tickets, audit>>

-----------------------------------------------------------------------------
(* ReplyTicket, up to who is allowed *)
ReplyTicket(k, a, t) ==
    /\ a = tickets[t].owner \/ a \in staff
    /\ Begin("desk", k, [op |-> "reply", pc |-> "add", ticket |-> t,
                         by |-> IF a = tickets[t].owner THEN "user" ELSE "support"])
    /\ UNCHANGED deskVars

(* replies to t whose message is stored and whose status is not *)
Halfway(t) == {j \in Slots : At(j, "reply", "status") /\ call[j].ticket = t}

AddMessage(k) ==
    /\ At(k, "reply", "add")
    /\ LET t == call[k].ticket IN
       tickets' = [tickets EXCEPT ![t].msgs = Append(@, call[k].by),
                                  ![t].crossed = Halfway(t) # {}]
    /\ Goto(k, "status")
    /\ UNCHANGED <<staff, audit>>

(* whose turn it is after a message of by *)
Awaiting(by) == IF by = "support" THEN "pending" ELSE "open"

(* Mutant of UpdateStatus: an answer does not reopen a resolved ticket. *)
UpdateStatusUnresolved(k) ==
    /\ At(k, "reply", "status")
    /\ tickets' = [tickets EXCEPT ![call[k].ticket].status =
            IF @ = "resolved" THEN @ ELSE Awaiting(call[k].by)]
    /\ Answer(k)
    /\ UNCHANGED <<staff, audit>>

(* UpdateStatusAssignee with nobody to assign; its error is dropped *)
UpdateStatus(k) ==
    /\ At(k, "reply", "status")
    /\ tickets' = [tickets EXCEPT ![call[k].ticket].status = Awaiting(call[k].by)]
    /\ Answer(k)
    /\ UNCHANGED <<staff, audit>>

-----------------------------------------------------------------------------
ResolveTicket(k, a, t) ==
    /\ a \in staff
    /\ Begin("desk", k, [op |-> "resolve", pc |-> "update", ticket |-> t, by |-> a])
    /\ UNCHANGED deskVars

AssignResolved(k) ==
    /\ At(k, "resolve", "update")
    /\ LET t == call[k].ticket IN
       tickets' = [tickets EXCEPT ![t].status = "resolved", ![t].assigned = call[k].by,
                                  ![t].resolvedAt = Len(tickets[t].msgs)]
    /\ Goto(k, "log")
    /\ UNCHANGED <<staff, audit>>

(* logAction, whose error is dropped *)
LogAction(k) ==
    /\ At(k, "resolve", "log")
    /\ audit' = audit \cup {<<call[k].by, call[k].ticket>>}
    /\ Answer(k)
    /\ UNCHANGED <<tickets, staff>>

DeskNext ==
    \/ \E a \in AccountIds : CreateTicket(a) \/ SetRole(a)
    \/ \E k \in Slots, a \in AccountIds, t \in DOMAIN tickets :
        ReplyTicket(k, a, t) \/ ResolveTicket(k, a, t)
    \/ \E k \in Slots : AddMessage(k) \/ UpdateStatus(k) \/ AssignResolved(k) \/ LogAction(k)

-----------------------------------------------------------------------------
Handled(t) == {k \in Slots : call[k].op \in {"reply", "resolve"} /\ call[k].ticket = t}

(* "The queue's status column always shows whose turn it is to respond"
   (adminsvc ReplyTicket), as far as it does: with no request for a ticket under way
   or cut short, and unless its last two messages crossed, it awaits the other side
   of its last message, or has been resolved and nobody has written since; and who
   resolved it is in the audit log. *)
StatusShowsWhoseTurn ==
    failed = 0 => \A t \in DOMAIN tickets : Handled(t) = {} =>
        LET x == tickets[t] IN
        /\ \/ x.status = "resolved" /\ Len(x.msgs) = x.resolvedAt
           \/ x.status = Awaiting(Last(x.msgs))
           \/ x.crossed
        /\ x.assigned # Unassigned => <<x.assigned, t>> \in audit

-----------------------------------------------------------------------------
(****************************************************************************)
(* Roles, audit log and support tickets (admin/adminsvc over                *)
(* admin/mem_repo.go and over admin/pgrepo).  In memory the tickets of an   *)
(* account and the messages of a ticket are lists of an index; the tables   *)
(* are searched and sorted.  A ticket is known by when it was opened: the   *)
(* two number them differently, for in memory messages count too.           *)
(*                                                                          *)
(* Restricting accounts, paying out and reversing are other services', here *)
(* done or refused as given; what is theirs is the permission and the note. *)
(****************************************************************************)

GrantedRoles == {"support", "superadmin"}  \* bound: roles that are granted

RolePermissions ==
    [support |-> {"support.manage"},
     finance |-> {"economy.view", "audit.view", "analytics.view", "payout.manage", "refund.manage"},
     trust_safety |-> {"accounts.manage", "fraud.review", "audit.view"},
     superadmin |-> {"accounts.manage", "economy.view", "fraud.review", "support.manage",
                     "health.view", "audit.view", "analytics.view", "rollout.manage",
                     "payout.manage", "refund.manage"}]

(* what staff do that another service carries out, and the permission it takes *)
Delegated ==
    [restrict_account |-> "accounts.manage", unsuspend_account |-> "accounts.manage",
     approve_payout |-> "payout.manage", reject_payout |-> "payout.manage",
     mark_payout_processing |-> "payout.manage", mark_payout_paid |-> "payout.manage",
     mark_payout_failed |-> "payout.manage", reverse_transaction |-> "refund.manage"]
Delegating == {"restrict_account"}     \* bound: which of them are asked for

NobodyYet == "nobody yet"

NoDesk == [roles |-> <<>>, entries |-> <<>>, tickets |-> <<>>, byAcct |-> <<>>, messages |-> <<>>]
NoDeskRows == [roles |-> {}, entries |-> {}, tickets |-> {}, messages |-> {}]

-----------------------------------------------------------------------------
(* In memory *)

MemMay(m, a, permission) ==
    a \in DOMAIN m.roles /\ permission \in RolePermissions[m.roles[a]]

MemSetRole(m, a, role) == Says([m EXCEPT !.roles = (a :> role) @@ @], Given("granted"))

MemAppendEntry(m, a, action) ==
    [m EXCEPT !.entries = Append(@, [by |-> a, role |-> m.roles[a], action |-> action])]

MemAudit(m, a) ==
    IF MemMay(m, a, "audit.view") THEN Given(Reverse(m.entries)) ELSE <<"forbidden">>

MemDelegate(m, a, action, done) ==
    CASE ~MemMay(m, a, Delegated[action]) -> Says(m, <<"forbidden">>)
      [] ~done -> Says(m, <<"refused">>)
      [] OTHER -> Says(MemAppendEntry(m, a, action), Given("done"))

MemCreateTicket(m, a) ==
    LET t == [acct |-> a, status |-> "open", assigned |-> NobodyYet]
        id == Len(m.tickets) + 1
        of == IF a \in DOMAIN m.byAcct THEN m.byAcct[a] ELSE <<>>
    IN  Says([m EXCEPT !.tickets = Append(@, t),
                       !.byAcct = (a :> Append(of, id)) @@ @,
                       !.messages = Append(@, <<<<a, FALSE>>>>)],
             Given(<<id, t>>))

MemUpdateTicket(m, t, status, who) ==
    [m EXCEPT !.tickets[t].status = status,
              !.tickets[t].assigned = IF who = NobodyYet THEN @ ELSE who]

MemReplyTicket(m, a, t) ==
    LET byStaff == m.tickets[t].acct # a
        added == [m EXCEPT !.messages[t] = Append(@, <<a, byStaff>>)]
    IN  IF byStaff /\ ~MemMay(m, a, "support.manage") THEN Says(m, <<"not a party">>)
        ELSE Says(MemUpdateTicket(added, t, IF byStaff THEN "pending" ELSE "open", NobodyYet),
                  Given("added"))

MemResolveTicket(m, a, t) ==
    IF ~MemMay(m, a, "support.manage") THEN Says(m, <<"forbidden">>)
    ELSE Says(MemAppendEntry(MemUpdateTicket(m, t, "resolved", a), a, "resolve_ticket"),
              Given("resolved"))

MemGetTicket(m, a, t) ==
    IF m.tickets[t].acct # a /\ ~MemMay(m, a, "support.manage") THEN <<"not a party">>
    ELSE Given(<<m.tickets[t], m.messages[t]>>)

MemMyTickets(m, a) ==
    IF a \notin DOMAIN m.byAcct THEN <<>>
    ELSE Reverse([i \in DOMAIN m.byAcct[a] |-> m.tickets[m.byAcct[a][i]]])

(* deadlines are a day after opening *)
MemTicketQueue(m, status) == SelectSeq(m.tickets, LAMBDA t : status \in {"", t.status})

MemCountOpen(m) == Len(SelectSeq(m.tickets, LAMBDA t : t.status # "resolved"))

-----------------------------------------------------------------------------
(* In Postgres *)

PgRole(p, a) == {r.role : r \in {x \in p.roles : x.acct = a}}

PgMay(p, a, permission) == \E role \in PgRole(p, a) : permission \in RolePermissions[role]

PgSetRole(p, a, role) ==
    Says([p EXCEPT !.roles = {r \in @ : r.acct # a} \cup {[acct |-> a, role |-> role]}],
         Given("granted"))

PgAppendEntry(p, a, action) ==
    LET role == CHOOSE r \in PgRole(p, a) : TRUE
    IN  [p EXCEPT !.entries = @ \cup {[id |-> Cardinality(@) + 1,
                                       row |-> [by |-> a, role |-> role, action |-> action]]}]

(* rows are made one after another, so ORDER BY created_at is by id *)
InOrderMade(rows) ==
    LET sorted == SetToSortSeq(rows, LAMBDA x, y : x.id < y.id)
    IN  [i \in DOMAIN sorted |-> sorted[i].row]

PgAudit(p, a) ==
    IF PgMay(p, a, "audit.view") THEN Given(Reverse(InOrderMade(p.entries))) ELSE <<"forbidden">>

PgDelegate(p, a, action, done) ==
    CASE ~PgMay(p, a, Delegated[action]) -> Says(p, <<"forbidden">>)
      [] ~done -> Says(p, <<"refused">>)
      [] OTHER -> Says(PgAppendEntry(p, a, action), Given("done"))

TicketRow(p, t) == CHOOSE x \in p.tickets : x.id = t

PgAddMessage(p, a, t, byStaff) ==
    [p EXCEPT !.messages = @ \cup {[id |-> Cardinality(@) + 1, ticket |-> t, row |-> <<a, byStaff>>]}]

(* the ticket and its first message are one transaction *)
PgCreateTicket(p, a) ==
    LET t == [acct |-> a, status |-> "open", assigned |-> NobodyYet]
        id == Cardinality(p.tickets) + 1
    IN  Says(PgAddMessage([p EXCEPT !.tickets = @ \cup {[id |-> id, row |-> t]}], a, id, FALSE),
             Given(<<id, t>>))

PgUpdateTicket(p, t, status, who) ==
    LET x == TicketRow(p, t)
    IN  [p EXCEPT !.tickets = (@ \ {x}) \cup
            {[x EXCEPT !.row.status = status,
                       !.row.assigned = IF who # NobodyYet THEN who ELSE @]}]

PgReplyTicket(p, a, t) ==
    LET byStaff == TicketRow(p, t).row.acct # a
        status == IF byStaff THEN "pending" ELSE "open"
    IN  IF byStaff /\ ~PgMay(p, a, "support.manage") THEN Says(p, <<"not a party">>)
        ELSE Says(PgUpdateTicket(PgAddMessage(p, a, t, byStaff), t, status, NobodyYet), Given("added"))

PgResolveTicket(p, a, t) ==
    IF ~PgMay(p, a, "support.manage") THEN Says(p, <<"forbidden">>)
    ELSE Says(PgAppendEntry(PgUpdateTicket(p, t, "resolved", a), a, "resolve_ticket"),
              Given("resolved"))

PgMessages(p, t) == InOrderMade({x \in p.messages : x.ticket = t})

PgGetTicket(p, a, t) ==
    IF TicketRow(p, t).row.acct # a /\ ~PgMay(p, a, "support.manage") THEN <<"not a party">>
    ELSE Given(<<TicketRow(p, t).row, PgMessages(p, t)>>)

PgMyTickets(p, a) == Reverse(InOrderMade({x \in p.tickets : x.row.acct = a}))

PgTicketQueue(p, status) == InOrderMade({x \in p.tickets : status = "" \/ x.row.status = status})

PgCountOpen(p) == Cardinality({x \in p.tickets : x.row.status # "resolved"})

-----------------------------------------------------------------------------
(* The requests *)

AskRole(a) ==
    \E role \in GrantedRoles : Ask("helpdesk", MemSetRole(Mem, a, role), PgSetRole(Pg, a, role))

AskTicket(a) == Ask("helpdesk", MemCreateTicket(Mem, a), PgCreateTicket(Pg, a))

AskReply(a, t) == Ask("helpdesk", MemReplyTicket(Mem, a, t), PgReplyTicket(Pg, a, t))

AskResolve(a, t) == Ask("helpdesk", MemResolveTicket(Mem, a, t), PgResolveTicket(Pg, a, t))

AskDelegate(a) ==
    \E action \in Delegating, done \in BOOLEAN :
        Ask("helpdesk", MemDelegate(Mem, a, action, done), PgDelegate(Pg, a, action, done))

HelpdeskNext ==
    \E a \in AccountIds :
        \/ AskRole(a) \/ AskTicket(a) \/ AskDelegate(a)
        \/ \E t \in DOMAIN Mem.tickets : AskReply(a, t) \/ AskResolve(a, t)

(* the audit log, the queue of tickets, and each account's own *)
HelpdeskReadsAlike ==
    /\ \A status \in {"", "open", "pending", "resolved"} :
        MemTicketQueue(Mem, status) = PgTicketQueue(Pg, status)
    /\ MemCountOpen(Mem) = PgCountOpen(Pg)
    /\ \A a \in AccountIds :
        /\ MemAudit(Mem, a) = PgAudit(Pg, a)
        /\ MemMyTickets(Mem, a) = PgMyTickets(Pg, a)
        /\ \A t \in DOMAIN Mem.tickets : MemGetTicket(Mem, a, t) = PgGetTicket(Pg, a, t)
=============================================================================
