---------------------------- MODULE DataDirPath -----------------------------
(***************************************************************************)
(* From the data directory the user selects to the paths the application   *)
(* works with: the path control hands out a file URL, the user default     *)
(* keeps it, and every method turns its absoluteString into a path by      *)
(* removing "file://localhost" and replacing "%20".                        *)
(*                                                                         *)
(* Directories are names below one parent; a name is a sequence of         *)
(* characters, of which "space", "%" and the non-ASCII "u:" are escaped in *)
(* a URL.                                                                  *)
(***************************************************************************)
EXTENDS Naturals, Sequences, FiniteSets

CONSTANTS
    Chars,        \* characters a name is made of
    MaxLength,    \* bound on the length of a name
    MaxClusters   \* bound on the clusters that are created

ASSUME CharsAssumption == Chars \subseteq {"a", "2", "0", "5", "space", "%", "u:"}
ASSUME BoundAssumption == MaxLength \in Nat /\ MaxClusters \in Nat

VARIABLES
    dir,      \* the directory selected last, <<>> for none
    made,     \* made[p]: the directory that cluster p was created for
    used      \* the cluster of the session, <<>> before start

pathVars == <<dir, made, used>>

Names == UNION {[1 .. n -> Chars] : n \in 1 .. MaxLength}

Escape == [c \in Chars |->
    CASE c = "space" -> <<"%", "2", "0">>
      [] c = "%"     -> <<"%", "2", "5">>
      [] c = "u:"    -> <<"u", "%", "C", "C", "%", "8", "8">>
      [] OTHER       -> <<c>>]

\* What stands for each character of d, joined.
Joined(d, code) ==
    LET url[n \in 0 .. Len(d)] == IF n = 0 THEN <<>> ELSE url[n - 1] \o code[d[n]]
    IN  url[Len(d)]

\* [[defaults URLForKey:@"dataDir"] absoluteString]; the URL of a directory that
\* the path control gives ends in a slash.  A default without one, written by
\* the page or read back when the directory is missing, is left out.
AbsoluteString(d) == <<"file://localhost", "/">> \o Joined(d, Escape) \o <<"/">>

EndsIn(t, old) ==
    /\ Len(old) <= Len(t)
    /\ \A i \in 1 .. Len(old) : t[Len(t) - Len(old) + i] = old[i]

\* One character more of a text in which new stands for old.
Put(out, c, old, new) ==
    LET t == Append(out, c)
    IN  IF EndsIn(t, old) THEN SubSeq(t, 1, Len(t) - Len(old)) \o new ELSE t

Rewrite(s, old, new) ==
    LET out[n \in 0 .. Len(s)] == IF n = 0 THEN <<>> ELSE Put(out[n - 1], s[n], old, new)
    IN  out[Len(s)]

\* stringByReplacingOccurrencesOfString, from left to right.  It does not look
\* again at what it has put in, which is the same where new is no part of old.
Replace(s, old, new) == Rewrite(s, old, new)

WithoutHost(url) == Replace(url, <<"file://localhost">>, <<>>)

\* Mutant: spaces are left as they are in the URL.
PathOfKeepsSpaces(url) == WithoutHost(url)

\* Mutant: percent signs are decoded, too, and first.
PathOfPercentFirst(url) ==
    Replace(Replace(WithoutHost(url), <<"%", "2", "5">>, <<"%">>),
            <<"%", "2", "0">>, <<"space">>)

PathOf(url) == Replace(WithoutHost(url), <<"%", "2", "0">>, <<"space">>)

\* The file system takes repeated slashes for one.
Resolve(path) == Rewrite(path, <<"/", "/">>, <<"/">>)

PostgresDataDir(d) == Resolve(PathOf(AbsoluteString(d)) \o <<"/", "pqsql">>)

\* RecorderController appends "mov", ApiController "/mov".
RecorderMovDir(d) == Resolve(PathOf(AbsoluteString(d)) \o <<"mov">>)
FetchMovDir(d) == Resolve(PathOf(AbsoluteString(d)) \o <<"/", "mov">>)

-----------------------------------------------------------------------------
PathInit == dir = <<>> /\ made = << >> /\ used = <<>>

\* A new session, and a directory selected in it.
PathUpdated ==
    /\ dir' \in Names
    /\ used' = <<>>
    /\ UNCHANGED made

\* start makes a cluster where there is none, and uses the one there is.
Start ==
    /\ dir # <<>>
    /\ used' = PostgresDataDir(dir)
    /\ \/ used' \in DOMAIN made /\ UNCHANGED made
       \/ /\ used' \notin DOMAIN made
          /\ Cardinality(DOMAIN made) < MaxClusters
          /\ made' = [p \in DOMAIN made \cup {used'} |->
                        IF p = used' THEN dir ELSE made[p]]
    /\ UNCHANGED dir

PathNext == PathUpdated \/ Start

PathSpec == PathInit /\ [][PathNext]_pathVars

-----------------------------------------------------------------------------
PathTypeOK ==
    /\ dir \in Names \cup {<<>>}
    /\ \A p \in DOMAIN made : made[p] \in Names
    /\ used \in DOMAIN made \cup {<<>>}

(***************************************************************************)
(* Two data directories never share a cluster, whatever their names: what  *)
(* the conversion does not decode it leaves escaped, so that it stays      *)
(* one-to-one.                                                             *)
(***************************************************************************)
OwnCluster == used # <<>> => made[used] = dir

(***************************************************************************)
(* The repository's README says "The location of the data directory        *)
(* doesn't matter": for names of plain characters and spaces the cluster   *)
(* is in the selected directory, and fetch looks for movies where          *)
(* startRecorder writes them, in that directory too, although every method *)
(* builds its path in its own way.  For a name with a percent sign or a    *)
(* non-ASCII character they all are in another directory.  (Of a URL that  *)
(* does not end in a slash it says nothing: "mov" would be joined to the   *)
(* directory's name in one method and not in the other.)                   *)
(***************************************************************************)
PlainInSelectedDir ==
    LET in(name) == <<"/">> \o dir \o <<"/", name>>
    IN  dir # <<>> /\ (\A i \in DOMAIN dir : dir[i] \notin {"%", "u:"}) =>
            /\ used \in {<<>>, in("pqsql")}
            /\ RecorderMovDir(dir) = in("mov") /\ FetchMovDir(dir) = in("mov")
=============================================================================
