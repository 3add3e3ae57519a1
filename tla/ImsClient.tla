------------------------------ MODULE ImsClient ------------------------------
(***************************************************************************)
(* sat/apiclient/ims.py, as sat bootprep uses it: the images IMS holds, and*)
(* the client that lists them once and answers every later lookup by name  *)
(* from that listing.                                                      *)
(*                                                                         *)
(* An image is identified by how it came about and for which name:         *)
(*   old      there before the program started                             *)
(*   built    the result of an IMS job                                     *)
(*   layered  the result of a CFS session, under a name CFS chose          *)
(*   renamed  a copy of a layered image, under the name asked for          *)
(*   partial  what a failed copy left behind, under the name asked for     *)
(***************************************************************************)
CONSTANTS
  Images,   \* the names of the images in the input file
  Stock     \* the name of an image that is not in the input file

VARIABLES
  customized, \* images of the input file that name a configuration
  ims,        \* the images in IMS
  cache       \* IMSClient._cached_resources, as to images

Names == Images \cup {Stock}

\* A base is told apart as a recipe, an id or a name by other keys of the file.
ASSUME NamesAssumption == Names \cap {"recipe", "id"} = {}

Kinds == {"old", "built", "layered", "renamed", "partial"}
Image(kind, n) == [kind |-> kind, of |-> n]
ImageIds == {Image(k, n) : k \in Kinds, n \in Names}

\* A built image has the final name if nothing is to be configured
\* (created_image_name).
HasName(image, n) ==
  /\ image.of = n
  /\ \/ image.kind \in {"old", "renamed", "partial"}
     \/ image.kind = "built" /\ n \notin customized

Unread == [read |-> "no", images |-> {}]
Listing(images) == [read |-> "yes", images |-> images]
Unreadable == [read |-> "failed", images |-> {}]

\* _get_resources_cached: the cache as it is once images were looked up.  A
\* failure is remembered as well.
Lookups == IF cache = Unread THEN {Listing(ims), Unreadable} ELSE {cache}

\* get_matching_resources by name, answered from the listing.
Matches(listing, n) == {i \in listing.images : HasName(i, n)}

\* Neither no match nor several.
IsUnique(found) == \E i \in found : found = {i}

\* The keys of the cache are plural resource names, and clear_resource_cache
\* looks for the singular one it is given.
CacheKey == "images"
ClearedKey == "image"
Cleared == IF ClearedKey = CacheKey THEN Unread ELSE cache

\* Fault: a copy that failed half way is taken for a complete one.
RenamesUnchecked(m) ==
  {[ok |-> TRUE, images |-> (ims \ {Image("layered", m)}) \cup {copy}] :
     copy \in {Image("partial", m), Image("renamed", m)}}

\* rename_image is a copy followed by a deletion.  The copy may fail with or
\* without a record left behind; the deletion may fail after the copy.
Renames(m) ==
  LET layered == Image("layered", m)
      renamed == Image("renamed", m)
  IN  {[ok |-> FALSE, images |-> ims],
       [ok |-> FALSE, images |-> ims \cup {Image("partial", m)}],
       [ok |-> FALSE, images |-> ims \cup {renamed}],
       [ok |-> FALSE, images |-> (ims \ {layered}) \cup {renamed}],
       [ok |-> TRUE, images |-> (ims \ {layered}) \cup {renamed}]}
=============================================================================
