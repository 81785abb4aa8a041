\* A task scored while the ONNX file is there but cannot be loaded.
SPECIFICATION PipeSpec
CONSTANTS
    IPs = {ipA, ipB}
    NoIP = NoIP
    AlertTimes <- MCTimes
    Window = 1
    Cap = 2
    MaxAlerts = 4
    Points <- MCPoints
    Answers <- MCAnswers
    Calibrated <- MCCalibrated
    BatchPoints <- MCBatchPoints
    MaxBatch = 3
SYMMETRY Symmetry
INVARIANT FallsBack
CHECK_DEADLOCK FALSE
