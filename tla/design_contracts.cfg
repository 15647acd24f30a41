SPECIFICATION ContractsSpec
CONSTANTS
  users = users
  orders = orders
  service = service
  schemaFile = schemaFile
  serviceFile = serviceFile
  pageFile = pageFile
  Row = {users, orders, service}
  File = {schemaFile, serviceFile, pageFile}
  FileOf <- FileOfRow
  Minted = minted
  Foreign = foreign
  BatchSize = 2
  RepairRounds = 2
  BootSmoke = TRUE
INVARIANTS NeverBlind SoleRowsRecorded ReturnedBoots
CHECK_DEADLOCK FALSE
