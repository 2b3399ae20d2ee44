----------------------------- MODULE Permissions -----------------------------
(***************************************************************************)
(* Fluxer's permission computation (gateways/fluxer/permissions.ts). A mask *)
(* is the set of the permissions whose bits it has.                        *)
(***************************************************************************)
CONSTANTS
  Permission,
  Administrator,
  Required     \* what the bot needs in a watched channel

(* Of several overwrites of a step, all denies come off, then all allows go *)
(* on.                                                                     *)
ApplyOverwrites(mask, step) == (mask \ UNION {o.deny : o \in step}) \cup UNION {o.allow : o \in step}

Base(roles, guild, held) ==
  UNION {r.permissions : r \in {r \in roles : r.id = guild \/ r.id \in held}}

Everyone(overwrites, guild) == {o \in overwrites : o.type = "role" /\ o.id = guild}
OfRoles(overwrites, guild, held) ==
  {o \in overwrites : o.type = "role" /\ o.id # guild /\ o.id \in held}
OfMember(overwrites, who) == {o \in overwrites : o.type = "member" /\ o.id = who}

(* guild is the guild's id and its everyone role's; held are the roles of   *)
(* the member who.                                                         *)
EffectivePermissions(guild, owner, roles, who, held, overwrites) ==
  LET base == Base(roles, guild, held)
  IN  IF who = owner \/ Administrator \in base THEN Permission
      ELSE ApplyOverwrites(
             ApplyOverwrites(
               ApplyOverwrites(base, Everyone(overwrites, guild)),
               OfRoles(overwrites, guild, held)),
             OfMember(overwrites, who))

MissingPermissions(mask) == Required \ mask

-----------------------------------------------------------------------------
(* The rule it computes: for one permission the closest overwrites that     *)
(* speak of it decide, an allow beating a deny among them.                 *)

Allows(step, p) == \E o \in step : p \in o.allow
Denies(step, p) == \E o \in step : p \in o.deny

Granted(guild, owner, roles, who, held, overwrites, p) ==
  LET mine == OfMember(overwrites, who)
      ofRoles == OfRoles(overwrites, guild, held)
      all == Everyone(overwrites, guild)
      base == Base(roles, guild, held)
  IN  \/ who = owner
      \/ Administrator \in base
      \/ Allows(mine, p)
      \/ ~ Denies(mine, p) /\ Allows(ofRoles, p)
      \/ ~ Denies(mine, p) /\ ~ Denies(ofRoles, p) /\ Allows(all, p)
      \/ ~ Denies(mine, p) /\ ~ Denies(ofRoles, p) /\ ~ Denies(all, p) /\ p \in base
=============================================================================
