------------------------------ MODULE PortalKeys ------------------------------
(***************************************************************************)
(* CollectionPortal with the key functions of StorageKeys for its own:     *)
(* what the functions on words must do for a row and its files to be found *)
(* again, and for DocumentStore to take a key for the tuple of its parts.  *)
(***************************************************************************)
EXTENDS CollectionPortal, StorageKeys

CONSTANTS
    Characters,     \* what words are made of, runs of letters included
    Spelled,        \* reference, client name or file name -> its word
    Letters,        \* letters of the other words that are tried out
    MaxLength       \* bound of these words

ASSUME WordsAreSpelled ==
    /\ Special \cup Letters \cup {"unknown", "file", "json"} \subseteq Characters
    /\ \A x \in References \cup Names \cup FileNames :
          Spelled[x] \in Seq(Characters)
    /\ MaxLength \in Nat

ASSUME KeysAreSpelled ==
    /\ \A x \in References \cup Names : Slugify[x] = Slug(Spelled[x])
    /\ \A f \in FileNames : SanitizeFilename[f] = Sanitize(Spelled[f])
    /\ \A s \in StoredNames : SidecarName[s] = Sidecar(s)

Words == UNION {[1..n -> Letters \cup Special] : n \in 0..MaxLength}

\* Which slugs of cases and clients have which folder (a slug slugs to itself).
WordSlugs == {Slug(w) : w \in Words}
SlugPairs == WordSlugs \X WordSlugs
Folders == [pair \in SlugPairs |-> CaseFolder(pair[1], pair[2])]
PairsIn == [folder \in {Folders[pair] : pair \in SlugPairs} |->
               {pair \in SlugPairs : Folders[pair] = folder}]
-----------------------------------------------------------------------------
(* What holds. *)

\* The name of a case's folder is its own: another case or client, whatever was
\* typed for it, gets the same name only if both slugs agree, however the name
\* could be cut at a "__".  (Where the type of an API upload leads from there is
\* DirOf of DocumentStore.)
FolderIsItsOwn ==
    \A l \in LinkIds : links[l] # Nil =>
        LET reference == Spelled[links[l].reference]
            client    == Spelled[links[l].client_name]
            folder    == CaseFolder(reference, client)
        IN folder \in DOMAIN PairsIn =>
             PairsIn[folder] = {<<Slug(reference), Slug(client)>>}

\* A client who uploads again under the name a row shows (which is sanitized
\* once more) plans the row and the file of the first upload, and the sidecar's
\* name is one the same rules leave alone.
ShownNameFindsRow ==
    \A d \in DocIds : Exists(d) =>
        LET stored == docs[d].file_name IN
          /\ Sanitize(stored) = stored
          /\ Sanitize(Sidecar(stored)) = Sidecar(stored)
=============================================================================
