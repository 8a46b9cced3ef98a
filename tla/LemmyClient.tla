----------------------------- MODULE LemmyClient -----------------------------
(***************************************************************************)
(* circuitforge_core/activitypub/lemmy.py: a client logs in, resolves the  *)
(* name or the address of a community to its id and posts there. The search*)
(* of the Lemmy instance is external: it answers with some communities, in *)
(* an order of its own.                                                    *)
(***************************************************************************)
EXTENDS Naturals, Sequences

CONSTANTS Names, Hosts,
          Limit,     \* communities the search returns, 5 in the code
          MaxPosts,  \* bound on the posts
          None

ConstantsOK == Limit \in Nat \ {0} /\ MaxPosts \in Nat

VARIABLES jwt,       \* _jwt is set
          lookup,    \* what resolve_community() was last asked for
          results,   \* the search's answer to that
          community, \* what it returned, or the exception it raised
          posts      \* the posts on the instance: the lookup and the community

vars == <<jwt, lookup, results, community, posts>>

Communities == [name : Names, host : Hosts]

Raised(exception) == [raised |-> exception]

\* A string is the sequence of its parts.
Address(c) == <<c.name, "@", c.host>>
ActorId(c) == <<"https://", c.host, "/c/", c.name>>
Lookups == {Address(c) : c \in Communities} \cup {<<n>> : n \in Names}
IsAddress(q) == \E i \in DOMAIN q : q[i] = "@"

Init == /\ jwt = FALSE
        /\ lookup = <<>>
        /\ results = <<>>
        /\ community = None
        /\ posts = <<>>

\* login(): the instance may reject it; the token of an earlier login stays.
Login ==
  /\ jwt' \in {jwt, TRUE}
  /\ UNCHANGED <<lookup, results, community, posts>>

\* `a in b` of two strings.
OccursIn(s, t) ==
  \E i \in 0 .. Len(t) - Len(s) : \A j \in DOMAIN s : t[i + j] = s[j]

Matches(q, c) == IF IsAddress(q) THEN OccursIn(q, ActorId(c)) ELSE <<c.name>> = q

\* The first match, or else the first result.
Resolved(q, found) ==
  LET matching == {i \in DOMAIN found : Matches(q, found[i])} IN
  IF matching = {} THEN found[1]
  ELSE found[CHOOSE i \in matching : \A j \in matching : i <= j]

\* resolve_community(): without a login, with a failed search or an empty one it
\* raises.
Resolve(q, found) ==
  /\ lookup' = q
  /\ IF ~jwt THEN community' = Raised("LemmyAuthError") /\ results' = <<>>
     ELSE /\ results' = found
          /\ community' = IF found = <<>> THEN Raised("LemmyCommunityNotFound")
                                          ELSE Resolved(q, found)
  /\ UNCHANGED <<jwt, posts>>

\* post_to_community() with the id that was returned; the answer may be an error.
Post ==
  /\ jwt /\ community \in Communities /\ Len(posts) < MaxPosts
  /\ posts' \in {posts, Append(posts, [lookup |-> lookup, community |-> community])}
  /\ UNCHANGED <<jwt, lookup, results, community>>

Distinct(s) == \A i, j \in DOMAIN s : s[i] = s[j] => i = j
Answers == {s \in UNION {[1..n -> Communities] : n \in 0..Limit} : Distinct(s)}

Next == \/ Login \/ Post
        \/ \E q \in Lookups, found \in Answers : Resolve(q, found)

Spec == Init /\ [][Next]_vars

-----------------------------------------------------------------------------
(* lemmy.py:119, "Prefer exact actor_id match (e.g. !cooking@lemmy.world)": *)
(* an address is resolved to the community that has it, when the search     *)
(* found that community.                                                    *)
AddressIsPreferred ==
  \A i \in DOMAIN results :
    IsAddress(lookup) /\ lookup = Address(results[i]) => community = results[i]

(* resolve_community() with a bare name: a community of that name.          *)
NameIsPreferred ==
  \A i \in DOMAIN results : lookup = <<results[i].name>> => community.name = results[i].name
=============================================================================
