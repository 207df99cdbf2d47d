SPECIFICATION CsvSpec
CONSTANTS
  Numeral = {"0", "7"}
  HeaderLine <- MCHeaderLine
  DataLine <- MCDataLine
  MaxRows = 2
INVARIANTS RecordsHoldTheirRows LostRowsWereObstructed ScriptsAgree
