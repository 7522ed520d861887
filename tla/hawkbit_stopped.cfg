CONSTANTS
  Deployments = {1}
  Kind <- OneImage
  Version <- VersionOfOne
  Factory = 1
  DownloadRetries = 0
  Tasks = {t1}
SPECIFICATION Spec
PROPERTIES
  StoppedMeansStopped
