-------------------------------- MODULE Store --------------------------------
(***************************************************************************)
(* The SQLite database of the bot and the repository functions over it     *)
(* (bot/db/models.py, bot/db/repo/).                                       *)
(*                                                                         *)
(* A database is a record of sets.  A row of chat_members is a pair        *)
(* <<chat, user>>; the sets "active" and "muted" hold the rows whose       *)
(* is_active and muted_from_all columns are true.  Columns nobody decides  *)
(* on (titles, names, timestamps, descriptions) are left out; the settings *)
(* columns of a chat are reduced to one bit, "custom": they differ from    *)
(* the defaults that a new row gets.                                       *)
(*                                                                         *)
(* Every operator below is one repository function: it maps a database to  *)
(* the database its statements leave.  The constraints SQLite enforces are *)
(* predicates on the database (MembershipRefs, TagMemberRefs): a caller    *)
(* whose statement would break one gets IntegrityError instead.            *)
(***************************************************************************)
EXTENDS Integers, FiniteSets

CONSTANTS
  Chats,              \* chat ids
  Users,              \* user ids, people and bots
  Bots,               \* the ids that belong to bots (GroupAnonymousBot is one)
  Names,              \* normalised tag names (name_lower)
  StartsWith,         \* <<n, q>> : the name n starts with the query q
  Contains,           \* <<n, q>> : the name n contains the query q
  MaxTagId,           \* bound: rowids of the tags table run from 1 to MaxTagId
  MAX_TAGS_PER_CHAT   \* bot/constants.py

ASSUME StoreAssumption ==
  /\ Bots \subseteq Users
  /\ IsFiniteSet(Users)  \* users.id is a 64-bit integer
  /\ StartsWith \subseteq Names \X Names
  /\ Contains \subseteq Names \X Names
  /\ MaxTagId \in Nat
  /\ MAX_TAGS_PER_CHAT \in Nat

TagIds == 1 .. MaxTagId

ChatMember == Chats \X Users
Tag        == [id : TagIds, chat : Chats, name : Names]
TagMember  == TagIds \X Users

Database ==
  [chats       : SUBSET Chats,
   custom      : SUBSET Chats,
   users       : SUBSET Users,
   members     : SUBSET ChatMember,
   active      : SUBSET ChatMember,
   muted       : SUBSET ChatMember,
   tags        : SUBSET Tag,
   tag_members : SUBSET TagMember]

EmptyDatabase ==
  [chats |-> {}, custom |-> {}, users |-> {}, members |-> {}, active |-> {},
   muted |-> {}, tags |-> {}, tag_members |-> {}]

TagsOf(d, c) == {t \in d.tags : t.chat = c}
IdsOf(tags)  == {t.id : t \in tags}
NamesOf(tags) == {t.name : t \in tags}

-----------------------------------------------------------------------------
(* Constraints of the schema.                                              *)

MembershipRefs(d, c, u) == c \in d.chats /\ u \in d.users
TagMemberRefs(d, i, u)  == i \in IdsOf(d.tags) /\ u \in d.users

ForeignKeys(d) ==
  /\ \A p \in d.members : MembershipRefs(d, p[1], p[2])
  /\ \A t \in d.tags : t.chat \in d.chats
  /\ \A p \in d.tag_members : TagMemberRefs(d, p[1], p[2])

UniqueTags(d) ==
  \A s, t \in d.tags : s.id = t.id \/ (s.chat = t.chat /\ s.name = t.name) => s = t

-----------------------------------------------------------------------------
(* repo/chats.py                                                           *)

get_or_create_chat(d, c) == [d EXCEPT !.chats = @ \union {c}]

update_settings(d, c, custom) ==
  IF c \in d.chats
  THEN [d EXCEPT !.custom = IF custom THEN @ \union {c} ELSE @ \ {c}]
  ELSE d

\* Rows of the old chat that have no counterpart in the new one are re-pointed;
\* what remains goes with the old chat's row (ON DELETE CASCADE).
migrate_chat_id(d, old, new) ==
  LET oldTags == TagsOf(d, old)
      kept    == {t \in oldTags : t.name \notin NamesOf(TagsOf(d, new))}
      lost    == IdsOf(oldTags \ kept)
      movers  == {u \in Users : <<old, u>> \in d.members /\ <<new, u>> \notin d.members}
      Move(rows) == {p \in rows : p[1] # old}
                      \union {<<new, u>> : u \in {v \in movers : <<old, v>> \in rows}}
  IN IF old \notin d.chats THEN d
     ELSE [d EXCEPT
             !.chats   = (@ \union {new}) \ {old},
             !.custom  = (IF new \notin d.chats /\ old \in @ THEN @ \union {new} ELSE @)
                           \ {old},
             !.members = Move(@),
             !.active  = Move(@),
             !.muted   = Move(@),
             !.tags    = (@ \ oldTags) \union {[t EXCEPT !.chat = new] : t \in kept},
             !.tag_members = {p \in @ : p[1] \notin lost}]

-----------------------------------------------------------------------------
(* repo/members.py                                                         *)

upsert_user(d, u) == [d EXCEPT !.users = @ \union {u}]

\* Mutant: the upsert writes muted_from_all of an existing row as well.
ensure_membership_unmutes(d, c, u) ==
  [d EXCEPT !.members = @ \union {<<c, u>>}, !.active = @ \union {<<c, u>>},
            !.muted = @ \ {<<c, u>>}]

\* muted_from_all of an existing row is left alone; a new row is not muted.
ensure_membership(d, c, u) ==
  [d EXCEPT !.members = @ \union {<<c, u>>}, !.active = @ \union {<<c, u>>}]

set_member_active(d, c, u, value) ==
  [d EXCEPT !.active =
     IF value THEN @ \union ({<<c, u>>} \intersect d.members) ELSE @ \ {<<c, u>>}]

set_muted(d, c, u, value) ==
  [d EXCEPT !.muted =
     IF value THEN @ \union ({<<c, u>>} \intersect d.members) ELSE @ \ {<<c, u>>}]

\* Mutant: the tags of every chat.
purge_user_from_all_tags(d, c, u) == [d EXCEPT !.tag_members = {p \in @ : p[2] # u}]

purge_user_from_chat_tags(d, c, u) ==
  [d EXCEPT !.tag_members = @ \ (IdsOf(TagsOf(d, c)) \X {u})]

\* Mutant: muted people too.
list_active_and_muted_users(d, c) == {u \in d.users \ Bots : <<c, u>> \in d.active}

list_active_users(d, c) ==
  {u \in d.users \ Bots : <<c, u>> \in d.active \ d.muted}

\* Counts of rows of chat_members, without a look at users.
count_active_members(d, c) == Cardinality({p \in d.active : p[1] = c})

count_muted_members(d, c) == Cardinality({p \in d.active \intersect d.muted : p[1] = c})

-----------------------------------------------------------------------------
(* repo/tags.py                                                            *)

\* Mutant: an exact name is one match among others.
find_tags_no_exact(d, c, q) ==
  LET prefix == {t \in TagsOf(d, c) : <<t.name, q>> \in StartsWith}
      part   == {t \in TagsOf(d, c) : <<t.name, q>> \in Contains}
  IN IF prefix # {} THEN prefix ELSE part

\* Three levels, the first that is not empty: exact name, prefix, any part.
find_tags(d, c, q) ==
  LET exact  == {t \in TagsOf(d, c) : t.name = q}
      prefix == {t \in TagsOf(d, c) : <<t.name, q>> \in StartsWith}
      part   == {t \in TagsOf(d, c) : <<t.name, q>> \in Contains}
  IN IF exact # {} THEN exact ELSE IF prefix # {} THEN prefix ELSE part

\* tags.id is a rowid without AUTOINCREMENT: one more than the largest in use,
\* so the id of a deleted last tag is given out again.
NewTagId(d, i) ==
  /\ \A j \in IdsOf(d.tags) : j < i
  /\ i = 1 \/ i - 1 \in IdsOf(d.tags)

create_tag(d, c, n) ==
  [d EXCEPT !.tags = @ \union
     {[id |-> CHOOSE i \in TagIds : NewTagId(d, i), chat |-> c, name |-> n]}]

\* The rows of tag_members go with the tag (ON DELETE CASCADE).
delete_tag(d, c, n) ==
  LET gone == {t \in TagsOf(d, c) : t.name = n}
  IN [d EXCEPT !.tags = @ \ gone,
               !.tag_members = {p \in @ : p[1] \notin IdsOf(gone)}]

add_tag_member(d, i, u) == [d EXCEPT !.tag_members = @ \union {<<i, u>>}]

remove_tag_member(d, i, u) == [d EXCEPT !.tag_members = @ \ {<<i, u>>}]

get_tag_users(d, t) ==
  {u \in d.users \ Bots : <<t.id, u>> \in d.tag_members /\ <<t.chat, u>> \in d.active}
=============================================================================
