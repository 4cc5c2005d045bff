----------------------------- MODULE CsvReader -----------------------------
(***************************************************************************)
(* How a roster file is read (csv.ts, and the header of roster-import.ts):  *)
(* one pass over the text, then the meaning of the first record's columns.  *)
(* A character is one of the symbols the scanner tells apart.               *)
(***************************************************************************)
EXTENDS Integers, Sequences, FiniteSets, FiniteSetsExt, SequencesExt

CONSTANTS
  Uploads,             \* [table, header]: rows of values, and what the columns of a
                       \* header row are: a sequence of [kind, slot]
  MaxRecords, MaxFieldsPerRecord, MaxFieldCharacters,   \* CSV_LIMITS
  MaxGuardiansPerRow

CONSTANTS LETTER, DELIMITER, QUOTE, LF, CR

ASSUME CsvAssumption ==
  /\ Uploads # {}
  /\ \A upload \in Uploads :
       /\ upload.table \in Seq(Seq(Seq({LETTER, DELIMITER, QUOTE, LF})) \ {<<>>})
       /\ upload.header \in Seq([kind : {"child", "birth", "email", "adult_email", "other"}, slot : {0}]
                                  \cup [kind : {"rel", "name"}, slot : Nat \ {0}])
  /\ MaxRecords \in Nat /\ MaxFieldsPerRecord \in Nat /\ MaxFieldCharacters \in Nat
  /\ MaxGuardiansPerRow \in Nat
  /\ LETTER \notin {DELIMITER, QUOTE, LF, CR, "end"} /\ DELIMITER \notin {QUOTE, LF, CR, "end"}
  /\ QUOTE \notin {LF, CR, "end"} /\ LF \notin {CR, "end"} /\ CR # "end"

VARIABLES
  export,   \* [table, cut]: what was written, and whether its last character was lost
  text,     \* the characters of the file
  reader,   \* the scanner: [index, line, startLine, inside, value, fields, records, result]
  columns   \* the header row of the file, as kinds of columns

csvVars == <<export, text, reader, columns>>

Newlines == {<<LF>>, <<CR>>, <<CR, LF>>}
Special == {DELIMITER, QUOTE, LF, CR}
NoResult == "reading"

----------------------------------------------------------------------------
\* Spreadsheets: a value with a special character (LF is its newline) is quoted,
\* others may be; every record but perhaps the last ends in a newline.

Escaped(value, newline) ==
  FlattenSeq([i \in DOMAIN value |->
    IF value[i] = QUOTE THEN <<QUOTE, QUOTE>>
    ELSE IF value[i] = LF THEN newline ELSE <<value[i]>>])

Written(value, newline, quoteAll) ==
  IF quoteAll \/ (\E i \in DOMAIN value : value[i] \in Special)
  THEN <<QUOTE>> \o Escaped(value, newline) \o <<QUOTE>> ELSE value

WrittenRow(row, newline, quoteAll) ==
  FlattenSeq([i \in DOMAIN row |->
    (IF i = 1 THEN <<>> ELSE <<DELIMITER>>) \o Written(row[i], newline, quoteAll)])

WrittenTable(table, newline, quoteAll) ==
  FlattenSeq([i \in DOMAIN table |-> WrittenRow(table[i], newline, quoteAll) \o newline])

----------------------------------------------------------------------------
OpensFile(upload, newline, quoteAll, final, cut) ==
  /\ LET whole == WrittenTable(upload.table, newline, quoteAll)
         ended == IF final THEN whole
                  ELSE SubSeq(whole, 1, Len(whole) - Len(newline))
     IN /\ cut => ended # <<>> /\ ended[Len(ended)] = QUOTE
        /\ columns = upload.header
        /\ export = [table |-> upload.table, final |-> final, cut |-> cut]
        /\ text = IF cut THEN SubSeq(ended, 1, Len(ended) - 1) ELSE ended
  /\ reader = [index |-> 1, line |-> 1, startLine |-> 1, inside |-> "file", value |-> <<>>,
               fields |-> <<>>, records |-> <<>>, result |-> NoResult]

CsvInit ==
  \E upload \in Uploads, newline \in Newlines, quoteAll, final, cut \in BOOLEAN :
    OpensFile(upload, newline, quoteAll, final, cut)

At(i) == IF i \in DOMAIN text THEN text[i] ELSE "end"
Here == At(reader.index)
IsRecordEnd(c) == c \in {"end", LF, CR}

Reading(inside) ==
  /\ reader.result = NoResult /\ reader.inside = inside
  /\ UNCHANGED <<export, text, columns>>

StartRecord ==
  /\ Reading("file")
  /\ reader' = IF reader.index <= Len(text)
               THEN [reader EXCEPT !.inside = "field", !.startLine = reader.line, !.fields = <<>>]
               ELSE [reader EXCEPT !.result = "ok"]

StartField ==
  /\ Reading("field")
  /\ reader' = IF Here = QUOTE
               THEN [reader EXCEPT !.inside = "quotes", !.value = <<>>, !.index = @ + 1]
               ELSE [reader EXCEPT !.inside = "tail", !.value = <<>>]

\* A doubled quote is one; a newline of either kind is kept as LF.
ReadQuoted ==
  /\ Reading("quotes")
  /\ reader' =
       CASE Here = "end" -> [reader EXCEPT !.result = "csv_unterminated_quote"]
         [] Here = QUOTE /\ At(reader.index + 1) = QUOTE ->
              [reader EXCEPT !.value = Append(@, QUOTE), !.index = @ + 2]
         [] Here = QUOTE /\ At(reader.index + 1) # QUOTE ->
              [reader EXCEPT !.inside = "tail", !.index = @ + 1]
         [] Here = CR ->
              [reader EXCEPT !.value = Append(@, LF), !.line = @ + 1,
                             !.index = @ + IF At(@ + 1) = LF THEN 2 ELSE 1]
         [] OTHER ->
              [reader EXCEPT !.value = Append(@, Here), !.index = @ + 1,
                             !.line = @ + IF Here = LF THEN 1 ELSE 0]

\* Unquoted text, and what follows a closing quote, up to the field's end.
ReadTail ==
  /\ Reading("tail") /\ Here # DELIMITER /\ ~IsRecordEnd(Here)
  /\ reader' = [reader EXCEPT !.value = Append(@, Here), !.index = @ + 1]

\* The characters a record's end takes: CR and LF together are one.
EndLength ==
  IF Here = "end" THEN 0 ELSE IF Here = CR /\ At(reader.index + 1) = LF THEN 2 ELSE 1

EndField ==
  /\ Reading("tail") /\ (Here = DELIMITER \/ IsRecordEnd(Here))
  /\ LET fields == Append(reader.fields, reader.value)
         ended == [reader EXCEPT !.fields = fields, !.inside = "file",
                     !.index = @ + EndLength,
                     !.line = @ + IF Here = "end" THEN 0 ELSE 1,
                     !.records = Append(@, [line |-> reader.startLine, fields |-> fields])]
     IN reader' =
          CASE Len(reader.value) > MaxFieldCharacters ->
                 [reader EXCEPT !.result = "csv_field_too_long"]
            [] Len(reader.value) <= MaxFieldCharacters /\ Len(fields) > MaxFieldsPerRecord ->
                 [reader EXCEPT !.result = "csv_too_many_fields"]
            [] OTHER ->
                 IF Here = DELIMITER
                 THEN [reader EXCEPT !.fields = fields, !.inside = "field", !.index = @ + 1]
                 ELSE IF Len(ended.records) > MaxRecords
                 THEN [ended EXCEPT !.result = "csv_too_many_records"] ELSE ended

CsvNext == StartRecord \/ StartField \/ ReadQuoted \/ ReadTail \/ EndField
CsvSpec == CsvInit /\ [][CsvNext]_csvVars

----------------------------------------------------------------------------
\* mapHeader: a pass over the columns.  The first of a kind (and a guardian's
\* slot) is taken and any later one ignored; an address is ignored too when an
\* adult's role qualifies it, and refused otherwise.
NoMapping == [taken |-> {}, ignored |-> {}, refused |-> {}]

Takes(mapping, i) ==
  /\ columns[i].kind \in {"child", "birth", "rel", "name"}
  /\ \A j \in mapping.taken : columns[j] # columns[i]

MapColumn(mapping, i) ==
  IF mapping.refused # {} THEN mapping
  ELSE IF columns[i].kind = "email" THEN [mapping EXCEPT !.refused = {i}]
  ELSE IF Takes(mapping, i) THEN [mapping EXCEPT !.taken = @ \cup {i}]
  ELSE [mapping EXCEPT !.ignored = @ \cup {i}]

Mapping == FoldLeft(MapColumn, NoMapping, [i \in DOMAIN columns |-> i])

Taken(kind) == {i \in Mapping.taken : columns[i].kind = kind}

HeaderVerdict ==
  IF Mapping.refused # {} THEN "child_email_column"
  ELSE IF Taken("child") = {} THEN "missing_child_name_column" ELSE "ok"

GuardianColumns ==
  {[slot |-> columns[i].slot, name |-> i,
    relationship |-> {j \in Taken("rel") : columns[j].slot = columns[i].slot}] :
     i \in {n \in Taken("name") : columns[n].slot <= MaxGuardiansPerRow}}

----------------------------------------------------------------------------
\* csv.ts: what was written is read.  The records are the table's rows, each with
\* the line it starts on, whatever newlines, quotes and final newline the export
\* uses; only a last row that is one empty value leaves no trace.  A file over a
\* limit is refused, one whose last quote was lost is never read.
LinesOf(row) ==
  1 + Cardinality(UNION {{<<i, j>> : j \in {k \in DOMAIN row[i] : row[i][k] = LF}} : i \in DOMAIN row})

StartOf(table, n) == 1 + MapThenSumSet(LAMBDA i : LinesOf(table[i]), 1 .. (n - 1))

OverLimit(table) ==
  \/ Len(table) > MaxRecords
  \/ \E i \in DOMAIN table : Len(table[i]) > MaxFieldsPerRecord
       \/ \E j \in DOMAIN table[i] : Len(table[i][j]) > MaxFieldCharacters

FilesAreReadBack ==
  LET rows == [i \in DOMAIN export.table |->
                 [line |-> StartOf(export.table, i), fields |-> export.table[i]]]
      unseen == rows # <<>> /\ ~export.final /\ rows[Len(rows)].fields = << <<>> >>
  IN /\ reader.result = "ok" =>
          /\ ~export.cut /\ ~OverLimit([i \in DOMAIN reader.records |-> reader.records[i].fields])
          /\ \/ reader.records = rows
             \/ unseen /\ reader.records = SubSeq(rows, 1, Len(rows) - 1)
     /\ (reader.result \notin {NoResult, "ok"} /\ ~export.cut) => OverLimit(export.table)

\* roster-import.ts: a file that might hold a child's address is refused wherever
\* that column stands; otherwise the child, the birth date and each guardian are
\* read from one column, the first that names them, and no adult's address is read.
HeadersAreUnderstood ==
  LET is(kind, slot) == {i \in DOMAIN columns : columns[i] = [kind |-> kind, slot |-> slot]}
      first(set) == {i \in set : \A j \in set : i <= j}
  IN /\ HeaderVerdict = "child_email_column" <=> is("email", 0) # {}
     /\ HeaderVerdict = "ok" =>
          /\ Taken("child") = first(is("child", 0)) /\ Taken("child") # {}
          /\ Taken("birth") = first(is("birth", 0))
          /\ {[slot |-> g.slot, name |-> {g.name}, relationship |-> g.relationship] :
                g \in GuardianColumns}
               = {[slot |-> n, name |-> first(is("name", n)), relationship |-> first(is("rel", n))] :
                    n \in {m \in 1 .. MaxGuardiansPerRow : is("name", m) # {}}}
          /\ \A i \in is("adult_email", 0) : i \in Mapping.ignored
=============================================================================
