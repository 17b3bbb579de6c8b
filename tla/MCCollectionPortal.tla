------------------------- MODULE MCCollectionPortal -------------------------
(***************************************************************************)
(* Values for the constants of CollectionPortal.  The key functions are    *)
(* those of StorageKeys on the words below, and collide as the real ones   *)
(* do: two references have one slug, a file and its sidecar one stem.      *)
(***************************************************************************)
EXTENDS PortalKeys, TLC

CONSTANTS h1, h2, d1, d2, d3

Symmetric == Permutations({h1, h2})
SymmetricIds == Permutations({h1, h2}) \cup Permutations({d1, d2})

MCSpelled == ("324.991" :> <<"324", ".", "991">>) @@
             ("324-991" :> <<"324", "-", "991">>) @@
             ("324."    :> <<"324", ".">>) @@
             ("Topp"    :> <<"Topp">>) @@
             ("p.pdf"   :> <<"p", ".", "pdf">>) @@
             ("./p.pdf" :> <<".", "/", "p", ".", "pdf">>)

MCCharacters == STRING

MCSlugify == [x \in References \cup Names |-> Slug(MCSpelled[x])]
MCSlugs == {MCSlugify[x] : x \in DOMAIN MCSlugify}

MCSanitize == [f \in FileNames |-> Sanitize(MCSpelled[f])]
MCStored == LET files == {MCSanitize[f] : f \in FileNames}
            IN files \cup {Sidecar(s) : s \in files}
MCSidecar == [s \in MCStored |-> Sidecar(s)]

\* A type that leads into the folder of another case, and one that leads out of
\* the root; the others name a directory of their own.  A case's folder has the
\* slug of a reference and that of a name; other pairs occur in no key.
MCCaseFolders == {MCSlugify[x] : x \in References} \X {MCSlugify[x] : x \in Names}
MCDirOf == [k \in MCSlugs \X MCSlugs \X DocTypes |->
    IF <<k[1], k[2]>> \notin MCCaseFolders \/ k[3] = "../.." THEN Nil
    ELSE IF k[3] = "../324__Topp/id" THEN <<<<"324">>, <<"Topp">>, "id">> ELSE k]
MCDirs == {MCDirOf[k] : k \in DOMAIN MCDirOf} \ {Nil}

\* Two contents of one size and two types, a longer one, a rejected one.
MCMimeOf == [c \in Contents |->
                CASE c = "pdf10" -> "pdf" [] c = "exe" -> "exe"
                  [] OTHER -> "png"]
MCSizeOf == [c \in Contents |-> IF c = "png20" THEN 20 ELSE 10]
=============================================================================
