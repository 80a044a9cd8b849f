---------------------------- MODULE BuccModule ----------------------------
(***************************************************************************)
(* Compiled Buccaneer modules and door packages (module.c, package.c): the *)
(* module file a compiler writes and a launcher reads, with its string     *)
(* pool, sections and offsets, and the manifest that names it.             *)
(*                                                                         *)
(* A module is a record [strings, consts, procs, imports, code]: strings   *)
(* are words, constants <<kind, value>> pairs, procedures and imports      *)
(* records, the code a sequence of bytes.  A file is [magic, major, off,   *)
(* len, at]: at[o] is what the section at offset o says.                   *)
(***************************************************************************)
EXTENDS Integers, Sequences

\* What the compiler emits: it gives a string one place, however often the
\* program uses it (emit.c).
Procs == [name : STRING, id : Nat, offset : Nat, len : Nat]
Imports == [ns : STRING, fn : STRING, id : Nat]
Emitted(mod) ==
  /\ mod.strings \in Seq(STRING)
  /\ \A i, j \in DOMAIN mod.strings : mod.strings[i] = mod.strings[j] => i = j
  /\ mod.consts \in Seq(STRING \X Int)
  /\ mod.procs \in Seq(Procs) /\ mod.imports \in Seq(Imports) /\ mod.code \in Seq(0 .. 255)

HeaderSize == 60
Width(word) == 4            \* bound: every word is four bytes long

-----------------------------------------------------------------------------
(* The string pool.                                                         *)

Position(pool, w) == CHOOSE i \in DOMAIN pool : pool[i] = w

\* A word is put into the pool once.
add_string_to_pool(pool, w) ==
  IF \E i \in DOMAIN pool : pool[i] = w THEN pool ELSE Append(pool, w)

\* The module's own strings keep the places the code knows them by; the names
\* of procedures and imports follow.
Words(mod) ==
  mod.strings \o [i \in 1 .. Len(mod.procs) |-> mod.procs[i].name]
              \o [i \in 1 .. 2 * Len(mod.imports) |->
                    IF i % 2 = 1 THEN mod.imports[(i + 1) \div 2].ns ELSE mod.imports[i \div 2].fn]
Pool(mod) ==
  LET pool[k \in 0 .. Len(Words(mod))] ==
        IF k = 0 THEN <<>> ELSE add_string_to_pool(pool[k - 1], Words(mod)[k])
  IN  pool[Len(Words(mod))]

SumOf(seq) ==
  LET sum[k \in 0 .. Len(seq)] == IF k = 0 THEN 0 ELSE sum[k - 1] + seq[k]
  IN  sum[Len(seq)]

\* Only these kinds of constant are written; any other becomes NULL.
ConstWidth(c) == CASE c[1] = "bool" -> 2 [] c[1] \in {"i64", "f64"} -> 9 [] OTHER -> 1
ConstWritten(c) == IF c[1] \in {"null", "bool", "i64", "f64"} THEN c ELSE <<"null", 0>>

\* The sizes of the four tables.
Sizes(mod) ==
  <<4 + SumOf([i \in DOMAIN Pool(mod) |-> 2 + Width(Pool(mod)[i])]),
    4 + SumOf([i \in DOMAIN mod.consts |-> ConstWidth(mod.consts[i])]),
    4 + 24 * Len(mod.procs),
    4 + 12 * Len(mod.imports)>>

\* The offsets of the five sections, one after the other behind the header.
Offsets(mod) ==
  LET size == Sizes(mod)
      consts  == HeaderSize + size[1]
      procs   == consts + size[2]
      imports == procs + size[3]
  IN  <<HeaderSize, consts, procs, imports, imports + size[4]>>

-----------------------------------------------------------------------------

\* The file: names are written as places in the pool, the sections at their
\* offsets.  No debug map is written, so the code reaches to the file's end.
bucc_module_save_file(mod) ==
  LET off  == Offsets(mod)
      pool == Pool(mod)
      place(w) == Position(pool, w)
      section == <<pool,
                   [i \in DOMAIN mod.consts |-> ConstWritten(mod.consts[i])],
                   [i \in DOMAIN mod.procs |-> [mod.procs[i] EXCEPT !.name = place(@)]],
                   [i \in DOMAIN mod.imports |->
                     [mod.imports[i] EXCEPT !.ns = place(@), !.fn = place(@)]],
                   mod.code>>
  IN  [magic |-> "BUCC", major |-> 1, off |-> off, len |-> off[5] + Len(mod.code),
       at |-> [o \in {off[i] : i \in 1 .. 5} |-> section[CHOOSE i \in 1 .. 5 : off[i] = o]]]

NoModule == [refused |-> TRUE]

\* What a launcher makes of file.len bytes: a section that is not inside them
\* is empty, a name that is not in the pool stays out, the code reaches as far
\* as the bytes do.  The file's own length and its checksum are not looked at.
\* A table the end cuts is taken as empty: what is left of it has blank
\* entries, and no code comes after it that could use the others.
bucc_module_load_memory(file) ==
  LET inside(i) == 0 < file.off[i] /\ file.off[i] < file.len
      section(i) == IF inside(i) /\ (i = 5 \/ file.off[i + 1] <= file.len) THEN file.at[file.off[i]] ELSE <<>>
      word(i) == IF i \in DOMAIN section(1) THEN section(1)[i] ELSE ""
  IN  IF file.len < HeaderSize \/ file.magic # "BUCC" \/ file.major # 1
      THEN NoModule
      ELSE [strings |-> section(1),
            consts  |-> section(2),
            procs   |-> [i \in DOMAIN section(3) |-> [section(3)[i] EXCEPT !.name = word(@)]],
            imports |-> [i \in DOMAIN section(4) |->
                          [section(4)[i] EXCEPT !.ns = word(@), !.fn = word(@)]],
            code    |-> SubSeq(section(5), 1, file.len - file.off[5])]

\* A file on disk is [text, size]: the module file that is or was being
\* written, and how many of its bytes are there.
Complete(file) == file.size = file.text.len
First(text, n) == [text EXCEPT !.len = n]

\* Bytes of two different files: they may mean anything.
Torn == [torn |-> TRUE]

\* The bytes a launcher has read, if there were as many as the file had when
\* it was opened: those read first are of the file `first', the others of
\* `file', which may have been written again in between.
bucc_module_load_file(first, file, size) ==
  CASE file.size < size -> NoModule
    [] file.size >= size /\ first = file.text -> bucc_module_load_memory(First(first, size))
    [] file.size >= size /\ first # file.text -> IF size < HeaderSize THEN NoModule ELSE Torn

\* Every place the code knows holds the same word or constant, and the
\* procedures and imports are the same.
SameParts(loaded, mod) ==
  /\ loaded.procs = mod.procs /\ loaded.imports = mod.imports
  /\ \A i \in DOMAIN mod.strings : i \in DOMAIN loaded.strings /\ loaded.strings[i] = mod.strings[i]
  /\ loaded.consts = [i \in DOMAIN mod.consts |-> ConstWritten(mod.consts[i])]

\* Two modules run alike; or alike up to where the code of the first ends.
SameProgram(loaded, mod) == loaded \notin {NoModule, Torn} /\ loaded.code = mod.code /\ SameParts(loaded, mod)
SameBeginning(loaded, mod) ==
  /\ Len(loaded.code) <= Len(mod.code) /\ loaded.code = SubSeq(mod.code, 1, Len(loaded.code))
  /\ SameParts(loaded, mod)

-----------------------------------------------------------------------------
(* Manifests: [form, name, caps, security]: form is "json" or something     *)
(* else; name is "", "bad" or a proper name; caps a set of                  *)
(* <<capability, required>>.                                                *)

NoManifest == [refused |-> TRUE]

bucc_manifest_load(m) == IF m.form # "json" \/ m.name = "" THEN NoManifest ELSE m

\* The name has proper characters and the module file is there.
bucc_manifest_validate(m, fileThere) == m # NoManifest /\ m.name # "bad" /\ fileThere
=============================================================================
