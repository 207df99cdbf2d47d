----------------------------- MODULE CsvReader ------------------------------
(***************************************************************************)
(* The two scripts that turn a CSV file into nested records, line by line  *)
(* and side by side on one file: readFileCSV.js and readFileCSVAnhHoang.js.*)
(*                                                                         *)
(* A text is kept as far as the scripts look into it.  A cell is the       *)
(* sequence of its parts between commas, a part the sequence of its words  *)
(* between dots, and a line the sequence of its cells, written either as   *)
(* "a","b" (quoted) or as a,b.  What the scripts strip, quotes and outer   *)
(* blanks, is gone already, and no cell has a quote inside.                *)
(***************************************************************************)
EXTENDS Naturals, Sequences, SequencesExt

CONSTANTS
  Numeral,      \* the words, "" apart, that Number() takes for a number
  HeaderLine,   \* the first lines of the files read
  DataLine,     \* their other lines
  MaxRows       \* how many

VARIABLES
  file,      \* the lines
  line,      \* how many lines each script has read
  headers,   \* the column headers of each script
  records,   \* the records each script has built
  dead       \* readFileCSVAnhHoang.js ended with an unhandled rejection

csvVars == <<file, line, headers, records, dead>>

Script == {"readFileCSV", "readFileCSVAnhHoang"}

ASSUME RowsAssumption == MaxRows \in Nat

ASSUME NumeralAssumption == "0" \in Numeral /\ "" \notin Numeral

PartText == Seq(STRING) \ {<<>>}
CellText == Seq(PartText) \ {<<>>}
LineText == [quoted : BOOLEAN, cells : Seq(CellText) \ {<<>>}]

ASSUME LineAssumption == HeaderLine \cup DataLine \subseteq LineText

-----------------------------------------------------------------------------
EmptyWord == <<"">>        \* between two dots: nothing
EmptyCell == <<EmptyWord>>
ZeroCell == << <<"0">> >>

(* split: at `","` an unquoted line is one cell; at a comma even a quoted  *)
(* cell falls apart.  The empty line is [] to the first script and one     *)
(* empty cell to the second.                                               *)
SplitQuoted(l) == IF l.quoted THEN l.cells ELSE <<FlattenSeq(l.cells)>>
SplitCommas(l) == LET parts == FlattenSeq(l.cells) IN [i \in 1..Len(parts) |-> <<parts[i]>>]

ExtractRowValues(l) == IF l.cells = <<EmptyCell>> /\ ~l.quoted THEN <<>> ELSE SplitQuoted(l)

(* JavaScript values.                                                      *)
Text(cell) == [type |-> "text", of |-> cell]
Number(cell) == [type |-> "number", of |-> cell]
Undefined == [type |-> "undefined", of |-> <<>>]
Object == [type |-> "object", of |-> <<>>]

Truthy(v) == v \notin {Undefined, Text(EmptyCell), Number(ZeroCell)}

IsNumeral(cell) == Len(cell) = 1 /\ Len(cell[1]) = 1 /\ cell[1][1] \in Numeral

(* Mutant of ConvertToNumber: Number(value) || value.                      *)
ConvertOrKeep(cell) == IF IsNumeral(cell) /\ cell # ZeroCell THEN Number(cell) ELSE Text(cell)

ConvertToNumber(cell) == IF IsNumeral(cell) THEN Number(cell) ELSE Text(cell)

(* Number('') is 0.                                                        *)
CastNumber(cell) ==
  IF cell = EmptyCell THEN Number(ZeroCell)
  ELSE IF IsNumeral(cell) THEN Number(cell) ELSE Text(cell)

(* split('.'): the last word of a part and the first one of the next are   *)
(* one property name with a comma in it.                                   *)
Words(part) == [i \in 1..Len(part) |-> <<part[i]>>]
Fuse(path, part) == Front(path) \o <<Append(Last(path), Head(part))>> \o Words(Tail(part))
PropertyPath(cell) ==
  LET path[i \in 1..Len(cell)] == IF i = 1 THEN Words(cell[1]) ELSE Fuse(path[i - 1], cell[i])
  IN path[Len(cell)]

-----------------------------------------------------------------------------
(* An object is the function from the paths in it to what is there: a      *)
(* primitive, or Object.  `threw` says that building it met a TypeError.   *)
Blank == [threw |-> FALSE, at |-> [q \in {} |-> Object]]

(* Mutant of MakeLevels: the levels of a path are made anew.               *)
MakeLevelsAnew(at, path) ==
  [q \in {p \in DOMAIN at : path = <<>> \/ ~IsStrictPrefix(<<Head(path)>>, p)}
           \cup (Prefixes(path) \ {<<>>}) |->
     IF q \in Prefixes(path) THEN Object ELSE at[q]]

(* level = level[property] || {}, for every property of the path.          *)
MakeLevels(at, path) ==
  [q \in DOMAIN at \cup (Prefixes(path) \ {<<>>}) |->
     IF q \in DOMAIN at /\ (q \notin Prefixes(path) \/ Truthy(at[q])) THEN at[q] ELSE Object]

(* level[property] = value, in place of whatever was there and under it.   *)
Assign(at, path, value) ==
  [q \in {p \in DOMAIN at : ~IsStrictPrefix(path, p)} \cup {path} |->
     IF q = path THEN value ELSE at[q]]

(* Mutant of Obstacles: level = level[property] ?? {}.                     *)
ObstaclesToo(at, path) ==
  {q \in DOMAIN at : IsStrictPrefix(q, path) /\ at[q] \notin {Undefined, Object}}

(* A primitive that is truthy stays where a level should be: setting a     *)
(* property on it has no effect, and a property of that property is a      *)
(* TypeError.                                                              *)
Obstacles(at, path) ==
  {q \in DOMAIN at : IsStrictPrefix(q, path) /\ Truthy(at[q]) /\ at[q] # Object}

(* The value of an assignment that makes the levels of its path only.      *)
Lost == [type |-> "lost", of |-> <<>>]
Nothing == [path |-> <<>>, value |-> Lost]

Set(object, a) ==
  IF object.threw \/ \E q \in Obstacles(object.at, a.path) : Len(q) + 1 < Len(a.path)
  THEN [object EXCEPT !.threw = TRUE]
  ELSE IF Obstacles(object.at, a.path) # {}
  THEN object
  ELSE [object EXCEPT !.at = IF a.value = Lost THEN MakeLevels(@, a.path)
                             ELSE Assign(MakeLevels(@, Front(a.path)), a.path, a.value)]

Nest(assignments) ==
  LET built[n \in 0..Len(assignments)] ==
        IF n = 0 THEN Blank ELSE Set(built[n - 1], assignments[n])
  IN built[Len(assignments)]

(* The flat row: its keys in the order in which they first occur, each     *)
(* with the value of its last occurrence.                                  *)
FlatRow(hs, values) ==
  [i \in DOMAIN hs |->
     IF \E j \in 1..i-1 : hs[j] = hs[i] THEN Nothing
     ELSE [path |-> PropertyPath(hs[i]), value |-> values[Max({j \in DOMAIN hs : hs[j] = hs[i]})]]]

(* The first script passes over empty property names; a path that ends     *)
(* with one has its levels made and its value lost.                        *)
SkipEmptyNames(a) ==
  [path |-> FlattenSeq([i \in DOMAIN a.path |-> IF a.path[i] = EmptyWord THEN <<>> ELSE <<a.path[i]>>]),
   value |-> IF a.path # <<>> /\ Last(a.path) = EmptyWord THEN Lost ELSE a.value]

ConvertDotNotationToNested(hs, values) ==
  Nest([i \in DOMAIN hs |-> SkipEmptyNames(FlatRow(hs, values)[i])])

FlattenToNested(hs, values) == Nest(FlatRow(hs, values))

-----------------------------------------------------------------------------
CsvInit ==
  /\ \E h \in HeaderLine, n \in 0..MaxRows : file \in {<<h>> \o rows : rows \in [1..n -> DataLine]}
  /\ line = [s \in Script |-> 0]
  /\ headers = [s \in Script |-> <<>>]
  /\ records = [s \in Script |-> <<>>]
  /\ dead = FALSE

(* for await (const line of lineReader)                                    *)
NextLine(s) ==
  /\ line[s] < Len(file)
  /\ line' = [line EXCEPT ![s] = @ + 1]
  /\ UNCHANGED file

Current(s) == file[line[s] + 1]

ReadHeaders(s, cells) ==
  /\ NextLine(s)
  /\ line[s] = 0
  /\ headers' = [headers EXCEPT ![s] = cells]
  /\ UNCHANGED <<records, dead>>

Push(s, object) == records' = [records EXCEPT ![s] = Append(@, object.at)]

Fits(values, hs) == Len(values) = Len(hs)

(* readFileCSV.js: a row of another length is skipped, an error costs its  *)
(* own line only.                                                          *)
ProcessRow ==
  LET s == "readFileCSV"
      cells == ExtractRowValues(Current(s))
      record == ConvertDotNotationToNested(headers[s], [i \in DOMAIN cells |-> ConvertToNumber(cells[i])])
  IN
  /\ line[s] > 0
  /\ NextLine(s)
  /\ UNCHANGED <<headers, dead>>
  /\ \/ ~Fits(cells, headers[s]) /\ UNCHANGED records
     \/ Fits(cells, headers[s]) /\ record.threw /\ UNCHANGED records
     \/ Fits(cells, headers[s]) /\ ~record.threw /\ Push(s, record)

(* readFileCSVAnhHoang.js: missing cells are undefined, an error ends it.  *)
ReadCsvRow ==
  LET s == "readFileCSVAnhHoang"
      cells == SplitQuoted(Current(s))
      record == FlattenToNested(headers[s], [i \in DOMAIN headers[s] |->
                  IF i \in DOMAIN cells THEN CastNumber(cells[i]) ELSE Undefined])
  IN
  /\ line[s] > 0 /\ ~dead
  /\ NextLine(s)
  /\ UNCHANGED headers
  /\ \/ record.threw /\ dead' = TRUE /\ UNCHANGED records
     \/ ~record.threw /\ Push(s, record) /\ UNCHANGED dead

CsvFinished ==
  /\ \A s \in Script : line[s] = Len(file) \/ (s = "readFileCSVAnhHoang" /\ dead)
  /\ UNCHANGED csvVars

CsvNext ==
  \/ ReadHeaders("readFileCSV", ExtractRowValues(file[1]))
  \/ ReadHeaders("readFileCSVAnhHoang", SplitCommas(file[1]))
  \/ ProcessRow
  \/ ReadCsvRow
  \/ CsvFinished

CsvSpec == CsvInit /\ [][CsvNext]_csvVars

-----------------------------------------------------------------------------
(* Headers that mean different places: no header twice, none empty or with *)
(* an empty name, none a place inside another one.                         *)
Exact(hs) ==
  \A i, j \in DOMAIN hs :
    /\ EmptyWord \notin ToSet(PropertyPath(hs[i]))
    /\ i # j => ~IsPrefix(PropertyPath(hs[i]), PropertyPath(hs[j]))

(* The records of readFileCSV.js, flattened again, are the rows: for such  *)
(* headers there is one record for each row as wide as the header line, in *)
(* the order of the file, and it holds each cell of the row under the path *)
(* of its header, as a number where it is one, and no other value.         *)
RecordsHoldTheirRows ==
  LET s == "readFileCSV"
      Filled(record) == {<<q, record[q]>> : q \in {p \in DOMAIN record : record[p] # Object}}
      Cells(k) == ExtractRowValues(file[k])
      Cell(k, i) == IF IsNumeral(Cells(k)[i]) THEN Number(Cells(k)[i]) ELSE Text(Cells(k)[i])
  IN (line[s] > 0 /\ Exact(headers[s])) =>
       \E row \in [DOMAIN records[s] -> 2..line[s]] :
         /\ \A m, n \in DOMAIN row : m < n => row[m] < row[n]
         /\ \A k \in 2..line[s] : Fits(Cells(k), headers[s]) <=> k \in {row[n] : n \in DOMAIN row}
         /\ \A n \in DOMAIN row :
              Filled(records[s][n]) =
                {<<PropertyPath(headers[s][i]), Cell(row[n], i)>> : i \in DOMAIN headers[s]}

(* Where the first script puts the cells of a column: at the names of its  *)
(* header that are not empty.  If the last one is empty it puts them       *)
(* nowhere.                                                                *)
Place(header) == SkipEmptyNames([path |-> PropertyPath(header), value |-> Lost]).path
Keeps(header) == Last(PropertyPath(header)) # EmptyWord

(* Whatever the headers, a row as wide as the header line makes a record,  *)
(* in the order of the file, unless it is obstructed: it has a cell that   *)
(* is neither empty nor zero where a later column needs an object within   *)
(* an object.  What a record holds are cells of its own row, each at the   *)
(* place of its column, the last one of its name.                          *)
LostRowsWereObstructed ==
  LET s == "readFileCSV"
      hs == headers[s]
      Cells(k) == ExtractRowValues(file[k])
      Named(i) == {j \in DOMAIN hs : hs[j] = hs[i]}
      Obstructed(k) ==
        \E i, j, m \in DOMAIN hs :
          /\ i < j /\ m \in Named(i) /\ \A n \in Named(i) : n <= m
          /\ Keeps(hs[i]) /\ Cells(k)[m] \notin {EmptyCell, ZeroCell}
          /\ IsStrictPrefix(Place(hs[i]), Place(hs[j])) /\ Len(Place(hs[i])) + 1 < Len(Place(hs[j]))
  IN line[s] > 0 =>
       \E row \in [DOMAIN records[s] -> 2..line[s]] :
         /\ \A m, n \in DOMAIN row : m < n => row[m] < row[n]
         /\ \A n \in DOMAIN row : Fits(Cells(row[n]), hs)
         /\ \A k \in 2..line[s] :
              Fits(Cells(k), hs) => Obstructed(k) \/ k \in {row[n] : n \in DOMAIN row}
         /\ \A n \in DOMAIN row : \A q \in {p \in DOMAIN records[s][n] : records[s][n][p] # Object} :
              \E i \in DOMAIN hs : /\ Keeps(hs[i]) /\ q = Place(hs[i])
                                  /\ \A j \in Named(i) : j <= i
                                  /\ records[s][n][q] = ConvertToNumber(Cells(row[n])[i])

(* The files that both scripts are made for: everything quoted, no comma   *)
(* and no empty name in a header, every row as wide as the header line.    *)
Plain ==
  /\ \A k \in DOMAIN file : file[k].quoted /\ Len(file[k].cells) = Len(file[1].cells)
  /\ \A i \in DOMAIN file[1].cells : /\ Len(file[1].cells[i]) = 1
                                     /\ "" \notin ToSet(file[1].cells[i][1])

(* On these the records of the two scripts are the same, even when headers *)
(* clash, as far as both have any: until a row costs the first script a    *)
(* record and the second one its life.  The one difference is in the empty *)
(* cells, which stay texts in the first and are zero in the second: both   *)
(* falsy, so that they never stand in the way of another column.           *)
SameValue(v, w) == v = w \/ <<v, w>> = <<Text(EmptyCell), Number(ZeroCell)>>

SameRecord(r, t) == DOMAIN r = DOMAIN t /\ \A q \in DOMAIN r : SameValue(r[q], t[q])

ScriptsAgree ==
  LET first == records["readFileCSV"]
      second == records["readFileCSVAnhHoang"]
  IN Plain => \A n \in DOMAIN first \cap DOMAIN second : SameRecord(first[n], second[n])

=============================================================================
