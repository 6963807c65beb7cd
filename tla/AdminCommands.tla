--------------------------- MODULE AdminCommands ----------------------------
(***************************************************************************)
(* The administration commands (admincmd): Parse, which also authorises,   *)
(* and Execute.  A line is its sequence of fields.  The repositories are    *)
(* sets of entries; their own behaviour is in SenderLists, IPReputation    *)
(* and RejectionArchive.                                                   *)
(***************************************************************************)
EXTENDS Integers, Sequences, SequencesExt

CONSTANTS
    Actors,      \* [administrator, commandMode, recipient]: who may send a line
    Words,       \* the fields of a line
    MaxFields,   \* bound: fields of a line
    Addresses,   \* the words mailaddr.Normalize accepts
    Patterns,    \* the words *@domain
    Hosts,       \* the words netip.ParseAddr accepts
    Ids,         \* the words strconv.ParseUint accepts and that are not 0
    Stored       \* [allow, block, rejections, ips]: what the repositories hold

VARIABLES
    actor,      \* the Actor of the line
    fields,     \* the line, as far as it was typed
    command,    \* the Command parsed from it, or None
    lists,      \* [allow, block, rejections, ips]
    shown       \* the entries its response shows

adminVars == <<actor, fields, command, lists, shown>>

None == [kind |-> "none"]
Invalid == [kind |-> "invalid"]
Periods == {"day", "week", "month", "year", "all"}

Normalize(w) == IF w \in Addresses THEN w ELSE ""

\* A Command; rejection IDs and IP addresses are kept in arg.
Cmd(kind, verb, arg, recipient, period, all, canonical) ==
    [kind |-> kind, verb |-> verb, arg |-> arg, recipient |-> recipient,
     period |-> period, allRecipients |-> all, canonical |-> canonical]

\* Mutant of AuthorizeRecipient: any valid address is a scope a user may name.
AuthorizeRecipientAny(w, a) ==
    IF w = "*" THEN (IF a.administrator THEN "*" ELSE "denied")
    ELSE IF Normalize(w) = "" THEN "invalid" ELSE Normalize(w)

AuthorizeRecipient(w, a) ==
    IF w = "*" THEN (IF a.administrator THEN "*" ELSE "denied")
    ELSE IF Normalize(w) = "" THEN "invalid"
    ELSE IF ~a.administrator /\ Normalize(w) # a.recipient THEN "denied"
    ELSE Normalize(w)
Authorized(r) == r \notin {"denied", "invalid"}

\* The period at the end of a listing command, week when there is none.
ListPeriod(f, index) ==
    IF Len(f) = index THEN "week"
    ELSE IF Len(f) = index + 1 /\ Last(f) \in Periods THEN Last(f)
    ELSE ""

\* The recipient and period of REJECTIONS and WHITELIST LIST, whose first
\* optional field has this index: [ok, recipient, period, given].
ListArguments(f, index, a) ==
    LET timed == Len(f) >= index /\ Last(f) \in Periods
        end == IF timed THEN Len(f) - 1 ELSE Len(f)
        recipient == IF end = index THEN AuthorizeRecipient(f[index], a) ELSE a.recipient
    IN  [ok |-> Len(f) <= index + 1 /\ end <= index /\ Authorized(recipient),
         recipient |-> recipient, given |-> end = index,
         period |-> IF timed THEN Last(f) ELSE "week"]

ListCommand(kind, name, l) ==
    IF ~l.ok THEN Invalid
    ELSE Cmd(kind, "", "", l.recipient, l.period, FALSE,
             name \o (IF l.given THEN <<l.recipient>> ELSE <<>>) \o <<l.period>>)

ParseActivity(f, a) ==
    IF ~a.administrator \/ ListPeriod(f, 1) = "" THEN Invalid
    ELSE Cmd("activity", "", "", "", ListPeriod(f, 1), FALSE, <<"ACTIVITY", ListPeriod(f, 1)>>)

ParseRejection(f) ==
    IF Len(f) # 2 \/ f[2] \notin Ids THEN Invalid
    ELSE Cmd("rejection", "", f[2], "", "", FALSE, f)

ParseIP(f, a) ==
    IF ~a.administrator THEN Invalid
    ELSE IF Len(f) >= 2 /\ f[2] = "LIST"
         THEN LET lookup == Len(f) >= 3 /\ f[3] = "LOOKUP"
                  name == IF lookup THEN <<"IP", "LIST", "LOOKUP">> ELSE <<"IP", "LIST">>
                  period == ListPeriod(f, Len(name))
              IN  IF period = "" THEN Invalid
                  ELSE Cmd(IF lookup THEN "iplookup" ELSE "iplist", "", "", "", period, FALSE,
                           Append(name, period))
    ELSE IF Len(f) # 3 \/ f[2] \notin {"ADD", "DELETE"} \/ f[3] \notin Hosts THEN Invalid
    ELSE Cmd("ip", f[2], f[3], "", "", FALSE, f)

ParseBlocklistList(f, a) ==
    LET r == AuthorizeRecipient(IF Len(f) = 3 THEN f[3] ELSE a.recipient, a)
    IN  IF Len(f) > 3 \/ ~Authorized(r) THEN Invalid
        ELSE Cmd("blocklistlist", "", "", r, "", FALSE, <<"BLOCKLIST", "LIST", r>>)

ParseBlocklist(f, a) ==
    IF Len(f) \notin {3, 4} \/ f[2] \notin {"ADD", "DELETE"} THEN Invalid
    ELSE IF a.commandMode /\ Len(f) # 4 THEN Invalid
    ELSE IF f[3] \notin Addresses \cup Patterns THEN Invalid
    ELSE LET w == IF Len(f) = 4 THEN f[4] ELSE a.recipient
             r == AuthorizeRecipient(w, a)
         IN  IF w = "ALL"
             THEN IF f[2] # "DELETE" \/ ~a.administrator THEN Invalid
                  ELSE Cmd("blocklist", f[2], f[3], "", "", TRUE,
                           <<"BLOCKLIST", "DELETE", f[3], "ALL">>)
             ELSE IF ~Authorized(r) THEN Invalid
             ELSE Cmd("blocklist", f[2], f[3], r, "", FALSE, <<"BLOCKLIST", f[2], f[3], r>>)

ParseAllowlist(f, a) ==
    IF Len(f) \notin {3, 4} \/ f[1] # "WHITELIST" THEN Invalid
    ELSE IF f[2] \notin {"ADD", "DELETE"} \/ Normalize(f[3]) = "" THEN Invalid
    ELSE LET w == IF Len(f) = 4 THEN f[4] ELSE a.recipient
             r == AuthorizeRecipient(w, a)
         IN  IF (w = "*" /\ f[2] = "ADD") \/ ~Authorized(r) THEN Invalid
             ELSE Cmd("allowlist", f[2], f[3], r, "", FALSE, <<"WHITELIST", f[2], f[3], r>>)

ParseCommand(f, a) ==
    IF f = <<"HELP">> THEN Cmd("help", "", "", "", "", FALSE, f)
    ELSE IF f = <<>> THEN Invalid
    ELSE CASE f[1] = "ACTIVITY" -> ParseActivity(f, a)
           [] f[1] = "REJECTION" -> ParseRejection(f)
           [] f[1] = "IP" -> ParseIP(f, a)
           [] f[1] = "REJECTIONS" ->
                ListCommand("rejections", <<"REJECTIONS">>, ListArguments(f, 2, a))
           [] f[1] = "BLOCKLIST" /\ Len(f) >= 2 /\ f[2] = "LIST" -> ParseBlocklistList(f, a)
           [] f[1] = "BLOCKLIST" -> ParseBlocklist(f, a)
           [] f[1] = "WHITELIST" /\ Len(f) >= 2 /\ f[2] = "LIST" ->
                ListCommand("allowlistlist", <<"WHITELIST", "LIST">>, ListArguments(f, 3, a))
           [] OTHER -> ParseAllowlist(f, a)

-----------------------------------------------------------------------------
(* Execute                                                                 *)

\* recipientScope: "*" is every recipient.
InScope(e, recipient) == recipient = "*" \/ e.recipient = recipient

\* AddManual and AddSenderBlock; an opposite entry they displace is left to
\* SenderLists.
Added(S, c) == S \cup {[sender |-> c.arg, recipient |-> c.recipient]}

\* DeleteCorrespondent and DeleteSenderBlocks.  recipientScope turns "*" into
\* All for both, so that a blocklist deletion for "*" is one for ALL.
DeletedAllow(S, c) == {e \in S : ~(e.sender = c.arg /\ InScope(e, c.recipient))}
DeletedBlock(S, c) ==
    {e \in S : ~(e.sender = c.arg /\ (c.allRecipients \/ InScope(e, c.recipient)))}

ExecuteChange(l, c) ==
    CASE c.kind = "allowlist" ->
           [l EXCEPT !.allow = IF c.verb = "ADD" THEN Added(@, c) ELSE DeletedAllow(@, c)]
      [] c.kind = "blocklist" ->
           [l EXCEPT !.block = IF c.verb = "ADD" THEN Added(@, c) ELSE DeletedBlock(@, c)]
      [] c.kind = "ip" ->
           [l EXCEPT !.ips = IF c.verb = "ADD" THEN @ \cup {c.arg} ELSE @ \ {c.arg}]
      [] OTHER -> l

ExecuteShow(l, c, a) ==
    CASE c.kind = "allowlistlist" -> {e \in l.allow : InScope(e, c.recipient)}
      [] c.kind = "blocklistlist" -> {e \in l.block : InScope(e, c.recipient)}
      [] c.kind = "rejections" -> {e \in l.rejections : InScope(e, c.recipient)}
      [] c.kind = "rejection" ->
           {e \in l.rejections : e.id = c.arg /\ (a.administrator \/ e.recipient = a.recipient)}
      [] c.kind \in {"iplist", "iplookup"} -> {[ip |-> i, recipient |-> "*"] : i \in l.ips}
      [] c.kind = "activity" -> {[activity |-> c.period, recipient |-> "*"]}
      [] OTHER -> {}

-----------------------------------------------------------------------------
AdminInit ==
    /\ actor \in Actors
    /\ fields = <<>> /\ command = None /\ shown = {}
    /\ lists = Stored

Type(w) ==
    /\ command = None /\ Len(fields) < MaxFields
    /\ fields' = Append(fields, w)
    /\ UNCHANGED <<actor, command, lists, shown>>

\* One line: parsed, authorised and executed.
Submit ==
    /\ command = None /\ fields # <<>>
    /\ command' = ParseCommand(fields, actor)
    /\ \/ UNCHANGED <<lists, shown>>   \* not accepted, or a repository failed
       \/ /\ command'.kind # "invalid"
          /\ lists' = ExecuteChange(lists, command')
          /\ shown' = ExecuteShow(lists, command', actor)
    /\ UNCHANGED <<actor, fields>>

AdminNext == Submit \/ \E w \in Words : Type(w)

-----------------------------------------------------------------------------
(* Properties                                                              *)

Changed(S, T) == (S \ T) \cup (T \ S)

\* Whatever a user writes, in whatever order and with whatever scope word, a
\* line from someone who is not an administrator adds and removes only entries
\* of their own address and is answered only with entries of that address.
UserConfined ==
    ~actor.administrator =>
      /\ \A e \in Changed(lists.allow, lists'.allow) \cup Changed(lists.block, lists'.block) :
            e.recipient = actor.recipient
      /\ lists'.ips = lists.ips
      /\ \A e \in shown' : e.recipient = actor.recipient

\* The canonical form echoed in the reply and the log says what was done:
\* the same actor sending it back gets the same command.
CanonicalFaithful ==
    command.kind \notin {"none", "invalid"} =>
        ParseCommand(command.canonical, actor) = command

\* A command line (parse, Execute) does what its canonical form says and, from
\* a user, nothing outside that user's own recipient scope.
CommandsConfined ==
    [][CanonicalFaithful' /\ UserConfined]_adminVars

\* What Help tells administrators: "In BLOCKLIST mutations, * identifies the
\* server-wide entry; DELETE with ALL removes matching entries at every
\* recipient scope."  So a mutation for "*" leaves every other scope alone.
\* Execute passes the scope through recipientScope, which reads "*" as All.
ServerWideEntryOnly ==
    [][command'.kind = "blocklist" /\ command'.recipient = "*" =>
          \A e \in Changed(lists.block, lists'.block) : e.recipient = "*"]_adminVars

=============================================================================
