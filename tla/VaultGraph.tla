----------------------------- MODULE VaultGraph -----------------------------
(***************************************************************************)
(* Scans of the vault: the full-text search (storage/search.go) and the    *)
(* note graph (ontology/ontology.go) list and read one file after the      *)
(* other, with no lock, while notes and directories change under them.     *)
(*                                                                         *)
(* A note is its frontmatter fields, the links of its body and its text as *)
(* a sequence of characters, each with its width in bytes, as it is and in *)
(* lower case. A field has a sequence of values, and each value a sequence *)
(* of links. Vault is one level deep: a directory is Root or in Dirs.      *)
(***************************************************************************)
EXTENDS Integers, Sequences, FiniteSets

CONSTANTS
    Dirs, Root,      \* directories, and the one they are in
    Names,           \* file names
    Markdown, Binary,\* names ending in .md; in an extension search leaves out
    FileOf,          \* name in a link -> file name, ".md" added if it has no extension
    Images,          \* names in links that end like an image
    Contents,        \* [fields, links, text]
    Absent, None,
    Vaults,          \* what the vault may hold at first: path -> content or Absent
    Query, Width,    \* the query, letter by letter; its length in bytes
    Radius,          \* snippetRadius
    MaxEdits,        \* bound on the changes, and
    MaxErrors        \*   on the files and directories that cannot be read

Path == [dir : Dirs \cup {Root}, name : Names]

ASSUME VaultAssumption ==
    /\ Vaults \subseteq [Path -> Contents \cup {Absent}]
    /\ Root \notin Dirs /\ None \notin Dirs \cup {Root} /\ None \notin Path
    /\ Markdown \subseteq Names /\ Binary \subseteq Names
    /\ Absent \notin Contents
    /\ Len(Query) \in Nat \ {0} /\ {Width, Radius, MaxEdits, MaxErrors} \subseteq Nat

VARIABLES
    files, dirs,     \* path -> content or Absent; directories there are
    walk,            \* the scan, or None
    touched,         \* history: paths changed since the scan began,
    seen,            \*   <<path, content>> that were there meanwhile,
    vanished,        \*   directories that went away meanwhile,
    errors,          \*   items that were there and could not be read
    edits

vars == <<files, dirs, walk, touched, seen, vanished, errors, edits>>

There(f) == {<<p, f[p]>> : p \in {p \in Path : f[p] # Absent}}
In(d) == {p \in Path : p.dir = d /\ files[p] # Absent}

-----------------------------------------------------------------------------
(* The vault changes, a request at a time: LocalEngine takes these apart. *)

Changed(f, ds) ==
    /\ edits < MaxEdits /\ edits' = edits + 1
    /\ files' = f /\ dirs' = ds
    /\ touched' = touched \cup {p \in Path : f[p] # files[p]}
    /\ seen' = seen \cup There(f)
    /\ vanished' = vanished \cup (dirs \ ds)
    /\ UNCHANGED <<walk, errors>>

Save(p, c) == Changed([files EXCEPT ![p] = c], dirs \cup ({p.dir} \ {Root}))

DeleteFile(p) == files[p] # Absent /\ Changed([files EXCEPT ![p] = Absent], dirs)

\* Variant: a directory is removed with all that is in it.
DeleteTree(d) == d \in dirs /\ Changed(files, dirs \ {d})

\* os.Remove refuses a directory that is not empty.
DeleteDir(d) == d \in dirs /\ In(d) = {} /\ Changed(files, dirs \ {d})

RenameFile(p, q) ==
    /\ p.dir = q.dir /\ files[p] # Absent /\ files[q] = Absent
    /\ Changed([files EXCEPT ![q] = files[p], ![p] = Absent], dirs)

\* All that is in the directory moves with it.
RenameDir(d, e) ==
    /\ d \in dirs /\ e \in Dirs \ dirs
    /\ Changed([p \in Path |-> IF p.dir = e THEN files[[p EXCEPT !.dir = d]]
                               ELSE IF p.dir = d THEN Absent ELSE files[p]],
               (dirs \ {d}) \cup {e})

CreateNamespace(d) == d \notin dirs /\ Changed(files, dirs \cup {d})

-----------------------------------------------------------------------------
(* WalkFiles *)

\* The include function of the caller.
Include(kind, name) == IF kind = "graph" THEN name \in Markdown ELSE name \notin Binary

Item(d, p) == [dir |-> d, path |-> p]   \* a directory still to list, or a file

Begin(kind) ==
    /\ walk = None
    /\ walk' = [kind |-> kind, status |-> "walking", todo |-> {Item(Root, None)}, notes |-> {}]
    /\ touched' = {} /\ seen' = There(files) /\ vanished' = {} /\ errors' = {}
    /\ UNCHANGED <<files, dirs, edits>>

\* Variant: the include function is asked of directories, too.
ListedAllIncluded(kind, d) ==
    {Item(None, p) : p \in {p \in In(d) : Include(kind, p.name)}}
    \cup (IF d = Root THEN {Item(e, None) : e \in {e \in dirs : Include(kind, e)}} ELSE {})

Listed(kind, d) ==
    {Item(None, p) : p \in {p \in In(d) : Include(kind, p.name)}}
    \cup (IF d = Root THEN {Item(e, None) : e \in dirs} ELSE {})

\* The engine's List, as it is at that moment. Files and directories come in
\* some order; the model takes any.
List ==
    /\ walk # None /\ walk.status = "walking"
    /\ \E i \in walk.todo :
          /\ i.dir \in dirs \cup {Root}
          /\ walk' = [walk EXCEPT !.todo = (@ \ {i}) \cup Listed(walk.kind, i.dir)]
    /\ UNCHANGED <<files, dirs, touched, seen, vanished, errors, edits>>

\* It is there, and the engine returns an error: no permission, a bad disk, a
\* cluster that does not answer.
Error(i) == Cardinality(errors) < MaxErrors /\ errors' = errors \cup {i}

\* A List that fails, of a directory that is gone or of any, ends the whole scan.
ListFails ==
    /\ walk # None /\ walk.status = "walking"
    /\ \E i \in walk.todo : \/ i.dir \in Dirs \ dirs /\ UNCHANGED errors
                            \/ i.dir \in dirs \cup {Root} /\ Error(i)
    /\ walk' = [walk EXCEPT !.status = "failed"]
    /\ UNCHANGED <<files, dirs, touched, seen, vanished, edits>>

Finish ==
    /\ walk # None /\ walk.status = "walking" /\ walk.todo = {}
    /\ walk' = [walk EXCEPT !.status = "done"]
    /\ UNCHANGED <<files, dirs, touched, seen, vanished, errors, edits>>

-----------------------------------------------------------------------------
(* Build: the graph *)

\* Variant: a link without a directory is one of the root's.
resolveFromRoot(to, d) ==
    [dir |-> IF to.dir = None THEN Root ELSE to.dir, name |-> FileOf[to.name]]

\* A link without a slash is about a note of the same directory.
resolveLinkTarget(to, d) ==
    [dir |-> IF to.dir = None THEN d ELSE to.dir, name |-> FileOf[to.name]]

extractWikilinkTargets(c) ==
    {l.to : l \in {l \in c.links : ~l.code /\ l.to.name \notin Images}}

\* The link that is found in value i of a field: only the first. A value that
\* begins with a bracket is taken for a list, so an unquoted [[name]] loses one of
\* its brackets and is no link any more.
Found(f, i) == IF f.form = "bare" /\ i = 1 THEN 2 ELSE 1

extractFrontmatterRelations(c) ==
    UNION {{<<f.key, f.values[i][Found(f, i)]>> :
               i \in {i \in DOMAIN f.values : Found(f, i) \in DOMAIN f.values[i]}} :
           f \in {f \in c.fields : f.key \notin {"title", "type", "tags"}}}

Edges(notes) ==
    UNION {{[source |-> n[1], target |-> resolveLinkTarget(to, n[1].dir), relation |-> None]
               : to \in extractWikilinkTargets(n[2])}
           \cup {[source |-> n[1], target |-> resolveLinkTarget(x[2], n[1].dir), relation |-> x[1]]
               : x \in extractFrontmatterRelations(n[2])}
           : n \in notes}

\* The notes, and a phantom for every other target.
Nodes(notes) ==
    LET known == {n[1] : n \in notes}
    IN {[id |-> p, resolved |-> TRUE] : p \in known}
       \cup {[id |-> e.target, resolved |-> FALSE] : e \in {e \in Edges(notes) : e.target \notin known}}

-----------------------------------------------------------------------------
(* MatchSnippet: where the excerpt begins and ends *)

\* Bytes of the first n characters: as they are, and in lower case.
Bytes(text) == LET f[n \in 0 .. Len(text)] == IF n = 0 THEN 0 ELSE f[n - 1] + text[n].w IN f
LowerBytes(text) == LET f[n \in 0 .. Len(text)] == IF n = 0 THEN 0 ELSE f[n - 1] + text[n].lw IN f

\* Characters before each occurrence of the query, case apart.
Matches(text) ==
    {n \in 0 .. Len(text) - Len(Query) : \A k \in 1 .. Len(Query) : text[n + k].letter = Query[k]}

\* A character has at least one byte in either case. The match is as long as
\* the lower-cased query; what that is longer than the query fits the radius.
ASSUME TextAssumption == \A c \in Contents :
    LET text == c.text IN
    /\ Len(text) \in Nat /\ DOMAIN text = 1 .. Len(text)
    /\ \A k \in DOMAIN text : text[k].w \in Nat \ {0} /\ text[k].lw \in Nat \ {0}
    /\ \A k \in Matches(text) :
         LowerBytes(text)[k + Len(Query)] <= LowerBytes(text)[k] + Width + Radius

RuneStart(text, b) == \E n \in 0 .. Len(text) - 1 : Bytes(text)[n] = b

Least(S) == CHOOSE x \in S : \A y \in S : x <= y
Most(S) == CHOOSE x \in S : \A y \in S : x >= y

\* Variant: the excerpt ends a radius after the match begins.
EndWithoutQuery(text, idx) ==
    LET len == Bytes(text)[Len(text)]
    IN Least({b \in 0 .. len : b >= Least({idx + Radius, len}) /\ (b = len \/ RuneStart(text, b))})

SnippetEnd(text, idx) ==
    LET len == Bytes(text)[Len(text)]
    IN Least({b \in 0 .. len : b >= Least({idx + Width + Radius, len})
                               /\ (b = len \/ RuneStart(text, b))})

\* The byte of the match is counted in the lower-cased text, and used in the
\* text itself.
MatchSnippet(text) ==
    LET idx == LowerBytes(text)[Least(Matches(text))]
        start == Most({idx - Radius, 0})
    IN <<Most({b \in 0 .. start : b = 0 \/ RuneStart(text, b)}), SnippetEnd(text, idx)>>

\* The excerpt would begin beyond the end of the text: an index out of range.
Panics(text) ==
    /\ Matches(text) # {}
    /\ LET start == LowerBytes(text)[Least(Matches(text))] - Radius
       IN start > 0 /\ start >= Bytes(text)[Len(text)]

\* WalkAndSearch.
Results(notes) ==
    {[path |-> n[1], snippet |-> MatchSnippet(n[2].text)]
        : n \in {n \in notes : Matches(n[2].text) # {}}}

-----------------------------------------------------------------------------
(* A file is read, and handed to the caller. *)

\* A Read that fails is passed over, whatever the reason. What a search finds in
\* one file can end it, and then the request has no answer.
Read ==
    /\ walk # None /\ walk.status = "walking"
    /\ \E i \in walk.todo :
          LET note == {<<i.path, files[i.path]>>} \ {<<i.path, Absent>>}
              panics == walk.kind = "search" /\ \E n \in note : Panics(n[2].text)
          IN /\ i.path # None
             /\ \/ /\ walk' = [walk EXCEPT !.todo = @ \ {i}, !.notes = @ \cup note,
                                           !.status = IF panics THEN "panicked" ELSE @]
                   /\ UNCHANGED errors
                \/ /\ note # {} /\ Error(i)
                   /\ walk' = [walk EXCEPT !.todo = @ \ {i}]
    /\ UNCHANGED <<files, dirs, touched, seen, vanished, edits>>

-----------------------------------------------------------------------------

Init ==
    /\ dirs \in SUBSET Dirs
    /\ files \in Vaults
    /\ \A p \in Path : files[p] # Absent => p.dir \in dirs \cup {Root}
    /\ walk = None
    /\ touched = {} /\ seen = {} /\ vanished = {} /\ errors = {}
    /\ edits = 0

\* Edits before the scan are in Vaults already.
Edit ==
    /\ walk # None
    /\ \/ \E p \in Path : DeleteFile(p) \/ \E c \in Contents : Save(p, c)
       \/ \E p, q \in Path : RenameFile(p, q)
       \/ \E d \in Dirs : DeleteDir(d) \/ CreateNamespace(d) \/ \E e \in Dirs : RenameDir(d, e)

Next == (\E kind \in {"graph", "search"} : Begin(kind))
        \/ List \/ ListFails \/ Read \/ Finish \/ Edit

Spec == Init /\ [][Next]_vars

-----------------------------------------------------------------------------
(* Properties *)

Statuses == {"walking", "done", "failed", "panicked"}

VaultTypeOK ==
    /\ dirs \subseteq Dirs /\ files \in [Path -> Contents \cup {Absent}]
    /\ \A p \in Path : files[p] # Absent => p.dir \in dirs \cup {Root}
    /\ walk # None =>
          /\ walk.kind \in {"graph", "search"} /\ walk.status \in Statuses
          /\ \A i \in walk.todo : (i.dir = None) # (i.path = None)
          /\ walk.notes \subseteq Path \X Contents
    /\ touched \subseteq Path /\ vanished \subseteq Dirs /\ edits \in 0 .. MaxEdits
    /\ \A i \in errors : (i.dir = None) # (i.path = None)

Done(kind) == walk # None /\ walk.kind = kind /\ walk.status = "done"

\* There all the time, as it is now; and no Read of it failed.
Stable(p) == p \notin touched /\ files[p] # Absent
Kept(p) == Stable(p) /\ Item(None, p) \notin errors

\* A scan is a best effort (search.go:65-70): what it collects was in the vault
\* while it ran, each path once; a file that cannot be read never fails it, only
\* a directory that went away or could not be listed; and when it ends it has
\* listed all it met, and has every file it was asked for that nobody touched
\* and that could be read.
WalkIsTrue ==
    walk # None =>
      /\ walk.notes \subseteq seen
      /\ \A m, n \in walk.notes : m[1] = n[1] => m = n
      /\ walk.status = "failed" => vanished # {} \/ \E i \in errors : i.dir # None
      /\ Done(walk.kind) =>
           /\ \A i \in errors : i.path # None
           /\ \A p \in Path : Kept(p) /\ Include(walk.kind, p.name) => <<p, files[p]>> \in walk.notes

\* The graph is closed and true of what nobody touched and could be read: edges
\* join nodes, no note is both there and a phantom, and a link from one such note
\* to another is an edge to a resolved node, while a link to a path that stayed
\* free is an edge to a phantom (ontology.go:56-58, 82-115, 166-169, 231-234).
\* Links are those of the body outside of code, and the first one of each value
\* of a field, not counting one that stands bare at the beginning of the field.
GraphIsTrue ==
    Done("graph") =>
      LET nodes == Nodes(walk.notes)
          edges == Edges(walk.notes)
          first(f, i) == IF f.form = "bare" /\ i = 1 THEN 2 ELSE 1
          links(p) == {l.to : l \in {l \in files[p].links : ~l.code /\ l.to.name \notin Images}}
                      \cup UNION {{f.values[i][first(f, i)] :
                                     i \in {i \in DOMAIN f.values : first(f, i) \in DOMAIN f.values[i]}} :
                                  f \in {f \in files[p].fields : f.key \notin {"title", "type", "tags"}}}
          means(p, to) == [dir |-> IF to.dir = None THEN p.dir ELSE to.dir, name |-> FileOf[to.name]]
          node(p, there) == [id |-> p, resolved |-> there]
      IN /\ \A e \in edges : /\ node(e.source, TRUE) \in nodes
                             /\ \E n \in nodes : n.id = e.target
         /\ \A n \in nodes : ~(node(n.id, TRUE) \in nodes /\ node(n.id, FALSE) \in nodes)
         /\ \A p \in Path : Kept(p) /\ p.name \in Markdown =>
              \A to \in links(p) :
                LET q == means(p, to)
                IN /\ \E e \in edges : e.source = p /\ e.target = q
                   /\ q \in Path /\ q.name \in Markdown =>
                        /\ Kept(q) => node(q, TRUE) \in nodes
                        /\ (q \notin touched /\ files[q] = Absent) => node(q, FALSE) \in nodes

KeepsWidth(text) == \A k \in DOMAIN text : text[k].w = text[k].lw

\* A search that ends shows every text file with the query that nobody touched
\* and that could be read, with an excerpt that holds a match, cut between
\* characters; and it panics only if it read a text with a character that
\* changes its width in lower case, never because of another
\* (search.go:27-34, 47-63).
SearchIsTrue ==
    /\ Done("search") =>
         /\ \A p \in Path : Kept(p) /\ p.name \notin Binary /\ Matches(files[p].text) # {} =>
              \E r \in Results(walk.notes) : r.path = p
         /\ \A n \in walk.notes, r \in Results(walk.notes) :
              LET at == Bytes(n[2].text)
              IN r.path = n[1] /\ KeepsWidth(n[2].text) =>
                   /\ \E k \in Matches(n[2].text) :
                        r.snippet[1] <= at[k] /\ at[k + Len(Query)] <= r.snippet[2]
                   /\ {r.snippet[1], r.snippet[2]} \subseteq {at[k] : k \in DOMAIN at}
    /\ (walk # None /\ walk.status = "panicked") =>
         walk.kind = "search" /\ \E n \in walk.notes : ~KeepsWidth(n[2].text)
=============================================================================
