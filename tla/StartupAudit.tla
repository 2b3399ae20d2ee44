---------------------------- MODULE StartupAudit ----------------------------
(***************************************************************************)
(* The startup check of the bot's permissions in each watched channel       *)
(* (gateways/fluxer/audit.ts): a value fed with one event after another.    *)
(*                                                                         *)
(* A guild's state, as GUILD_CREATE sends it, is its owner, its roles, the  *)
(* bot's roles in it and its channels: a function from the channels listed  *)
(* to their type and overwrites. Malformed is a state that does not decode. *)
(***************************************************************************)
EXTENDS Permissions

CONSTANTS
  Watched,      \* the channels of the configuration
  Bot,
  Malformed,
  NotYet        \* no READY has been heard

TextTypes == {"text", "announcement"}

NewAudit == [expected |-> NotYet, seen |-> {}, unchecked |-> {}, findings |-> <<>>, settled |-> FALSE]

(* findings is a function from some of the watched channels.                *)
Without(findings, guild) ==
  [c \in {c \in DOMAIN findings : findings[c].guild # guild} |-> findings[c]]

Finding(guild, state, c) ==
  [guild |-> guild, type |-> state.channels[c].type,
   missing |-> MissingPermissions(EffectivePermissions(
      guild, state.owner, state.roles, Bot, state.held, state.channels[c].overwrites))]

(* Only the first READY counts.                                             *)
HearsReady(audit, guilds) ==
  IF audit.expected = NotYet THEN [audit EXCEPT !.expected = guilds] ELSE audit

BugKeepsFindings(audit, guild) ==
  [audit EXCEPT !.seen = @ \cup {guild}, !.unchecked = @ \cup {guild}]

(* Heard from, and none of its channels can be checked.                     *)
Lose(audit, guild) ==
  [audit EXCEPT !.seen = @ \cup {guild}, !.unchecked = @ \cup {guild},
                !.findings = Without(@, guild)]

GuildCreate(audit, guild, state) ==
  IF state = Malformed THEN Lose(audit, guild)
  ELSE LET listed == Watched \cap DOMAIN state.channels
       IN  [audit EXCEPT
              !.seen = @ \cup {guild},
              !.unchecked = @ \ {guild},
              !.findings = [c \in listed \cup DOMAIN @ |->
                              IF c \in listed THEN Finding(guild, state, c) ELSE @[c]]]

Problem(audit, c) ==
  IF c \notin DOMAIN audit.findings THEN TRUE
  ELSE audit.findings[c].type \notin TextTypes \/ audit.findings[c].missing # {}

Pending(audit) == IF audit.expected = NotYet THEN {} ELSE audit.expected \ audit.seen

Complete(audit) == audit.expected # NotYet /\ Pending(audit) = {}

Verdict(audit) == IF \E c \in Watched : Problem(audit, c) THEN "failed" ELSE "ok"

Reads(audit, event) ==
  IF event.t = "READY" THEN HearsReady(audit, event.guilds)
  ELSE IF event.t = "GUILD_CREATE" THEN GuildCreate(audit, event.guild, event.state)
  ELSE IF event.t = "GUILD_DELETE" THEN Lose(audit, event.guild)
  ELSE audit

(* Settled by the event that completes the burst, and deaf after it.        *)
Feed(audit, event) ==
  IF audit.settled THEN audit
  ELSE LET next == Reads(audit, event) IN [next EXCEPT !.settled = Complete(next)]
=============================================================================
