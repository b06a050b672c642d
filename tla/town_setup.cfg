SPECIFICATION Spec
CONSTANTS
  Agent = {1, 2, 3}
  Active = 1
  Household = {"h1", "h2"}
  Home = {"home_a", "home_b"}
  Work = {"cafe_bar"}
  MembersOf <- MCMembersOf
  HomeOf <- MCHomeOf
  JobOf <- MCJobOf
  Stations <- MCStations
  Capacity <- MCCapacity
  Catalog <- MCCatalog
  Manifest <- MCManifest
  Lines <- MCLines
  MaxEdits = 1
INVARIANTS
  CatalogsAgree
  OwnPlace
  SceneShowsAll
CHECK_DEADLOCK FALSE
